---- MODULE Spec2Model ----
(***************************************************************************)
(* Rules-resolution core of the card game engine: the ability resolver     *)
(* (AbilityResolver.js) running on the step pipeline, the game systems     *)
(* (GameSystem / CardTargetSystem) and the event window that applies the   *)
(* events they generate.                                                   *)
(***************************************************************************)
EXTENDS Integers, Sequences, FiniteSets, TLC

\* Largest number of cost events ability.resolveCosts puts in costResults.events.
MaxCostEvents == 2

VARIABLES
    \* ---- AbilityResolver: the ability and its context
    ability,                \* context.ability: the flags the resolver reads
    stage,                  \* context.stage
    sourceLocation,         \* context.source.location
    cardStateWhenInitiated, \* context.cardStateWhenInitiated.location, "none" when unset
    \* ---- AbilityResolver: the resolver's fields
    cancelled,              \* this.cancelled (undefined counts as FALSE)
    initiateAbility,        \* this.initiateAbility
    passPriority,           \* this.passPriority
    hasBeenShown,           \* this.passAbilityHandler.hasBeenShown
    targetResults,          \* this.targetResults
    costResults,            \* this.costResults
    events,                 \* this.events
    pipeline,               \* the steps still to run, front first
    messages,               \* game.addMessage calls, in order
    \* ---- AbilityResolver: what has happened so far (observations)
    trace,                  \* labels of the steps run, in order
    promptsShown,           \* promptWithHandlerMenu calls made by checkForPass
    passChosen,             \* "Pass" was answered at the Trigger / Pass prompt
    handlerCalls,           \* ability.executeHandler calls
    limitIncrements,        \* ability.limit.increment calls
    cancelCause,            \* what set this.cancelled, "none" while it is unset
    firstCheck,             \* this.cancelled as the first checkForCancelOrPass found it
    earlyCancelled,         \* targetResults.cancelled as resolveEarlyTargets left it
    targetStage,            \* what resolveTargets found and did when it ran uncancelled:
                            \* hasLegalTargets, checkAllTargets when it was asked,
                            \* and the call made (a sequence of one element, empty
                            \* before)
    \* ---- GameSystem / CardTargetSystem and the event window of its events
    gsSystem,               \* the system: its class, type filter and cannotBeCancelled
    gsCards,                \* each card's type, and whether a restriction names the system
    gsContext,              \* context.stage and whether the system is in
                            \* context.gameActionsResolutionChain
    gsEvents,               \* the events generated, in the order the window applies them
    gsPhase,                \* "generate", then "window" until every event is settled
    \* ---- a pipeline of anonymous steps
    pQueue,                 \* the steps still to run, front first
    pNextId,                \* the id the next queued step gets
    pLog,                   \* per step run: what it queued and what was behind it
    \* ---- Player: cost adjustment
    cCard,                  \* card.cost and the cost aspects of the play (context.costAspects)
    cPlayerAspects,         \* this.leader.aspects and this.base.aspects
    costAdjusters,          \* this.costAdjusters
    cCalls,                 \* getAdjustedCost calls since the player's state last changed
    cBefore,                \* the player's state when the first of these calls was
                            \* made (a sequence of one element, empty without a call)
    cFirstCost,             \* what the first of these calls returned (likewise)
    cAdjustedCost,          \* what the latest of these calls returned (likewise)
    cMinimumCost,           \* what getMinimumPossibleCost returned since that change
    \* ---- CardTargetSystem: leaves-play events and their event window
    lCards,                 \* each card's type, location, pile and parentCard
    lLegalLocations,        \* per card type, the legal locations of the type
    lEvents,                \* the events of the window, in the order they were added
    lPhase,                 \* "generate", "interrupt", "apply", or "aborted"
    lApplied,               \* the events whose handler ran, in the order it ran
    lMessages,              \* game.addMessage calls of the handlers, in order
    lFailed,                \* Contract.fail was called
    \* ---- CardTargetSystem.resolve on cards with 'unless' additional costs
    uTargets,               \* the target cards, in the order of properties.target
    uCosts,                 \* per card, its additional costs for the system: for each,
                            \* whether cost.hasLegalTarget holds when its step runs
    uAllCostsPaid,          \* the allCostsPaid of the loop iterations
    uEvents,                \* the events array of generateEventsForAllTargets
    uPipeline,              \* the steps still to run, front first
    uWindow,                \* the event list openEventWindow was called with (a
                            \* sequence of one element, empty before the call)
    uMessages,              \* game.addMessage calls, in order
    \* ---- Player.markUsedAdjusters
    mRegistry,              \* this.costAdjusters as it was when markUsedAdjusters was
                            \* last called (a sequence of one element, empty before)
    \* ---- Player.moveCard and Player.resourceCard, two players
    zCards,                 \* each card's type, owner, controller, location, exhausted
                            \* and parentCard
    zPiles,                 \* per player and location, the pile of getCardPile
    zCall,                  \* the latest call: method, player, arguments (a sequence
                            \* of one element, empty before the first call)
    zFailed,                \* Contract.fail was called during that call
    zCount,                 \* the calls made so far
    zFailures,              \* how many of them called Contract.fail
    \* ---- GameSystem.hasLegalTarget and allTargetsLegal
    gsChecked               \* the latest check: the candidate targets, what canAffect
                            \* answered for each card, and the two results (a
                            \* sequence of one element, empty before the first check)

resolverVars == <<ability, stage, sourceLocation, cardStateWhenInitiated, cancelled,
                  initiateAbility, passPriority, hasBeenShown, targetResults, costResults,
                  events, pipeline, messages, trace, promptsShown, passChosen, handlerCalls,
                  limitIncrements, cancelCause, firstCheck, earlyCancelled,
                  targetStage>>

gsVars == <<gsSystem, gsCards, gsContext, gsEvents, gsPhase>>

pVars == <<pQueue, pNextId, pLog>>

cVars == <<cCard, cPlayerAspects, costAdjusters, cCalls, cBefore, cFirstCost,
           cAdjustedCost, cMinimumCost>>

lVars == <<lCards, lLegalLocations, lEvents, lPhase, lApplied, lMessages, lFailed>>

uVars == <<uTargets, uCosts, uAllCostsPaid, uEvents, uPipeline, uWindow, uMessages>>

mVars == <<mRegistry>>

zVars == <<zCards, zPiles, zCall, zFailed, zCount, zFailures>>

tVars == <<gsChecked>>

moreVars == <<mVars, zVars, tVars>>

\* What each specification leaves alone
otherVars == <<cVars, lVars, uVars, moreVars>>

notCostVars == <<resolverVars, gsVars, pVars, lVars, uVars, moreVars>>

notLeavesPlayVars == <<resolverVars, gsVars, pVars, cVars, uVars, moreVars>>

notUnlessVars == <<resolverVars, gsVars, pVars, cVars, lVars, moreVars>>

vars == <<resolverVars, gsVars, pVars, otherVars>>

(***************************************************************************)
(* Step pipeline                                                           *)
(***************************************************************************)

\* game.queueStep / game.queueSimpleStep from a running step: the queued steps
\* go in front of the steps that were already waiting behind the running one.
QueueSteps_Behind(rest, queued) == rest \o queued
QueueSteps(rest, queued) == queued \o rest

\* The step at the front of the pipeline is the one that runs.
Running(label) == pipeline # <<>> /\ Head(pipeline) = label

\* The running step of the resolver ends having queued `queued`.
Finish(queued) ==
    /\ pipeline' = QueueSteps(Tail(pipeline), queued)
    /\ trace' = Append(trace, Head(pipeline))
    /\ UNCHANGED <<gsVars, pVars, otherVars>>

(***************************************************************************)
(* AbilityResolver                                                         *)
(***************************************************************************)

\* AbilityResolver.initialise
InitialSteps ==
    <<"resolveEarlyTargets", "checkForCancelOrPass", "openInitiateAbilityEventWindow">>

\* AbilityResolver.queueInitiateAbilitySteps
InitiateAbilitySteps ==
    <<"resolveCosts", "payCosts", "checkCostsWerePaid", "resolveTargets",
      "checkForCancelOrPass", "initiateAbilityEffects", "executeHandler">>

\* AbilityResolver.getCostResults
GetCostResults == [cancelled |-> FALSE, events |-> <<>>]

\* The results ability.resolveTargets / resolveRemainingTargets may hand back.
TargetResultValues ==
    [cancelled : BOOLEAN, delayTargeting : BOOLEAN, payCostsFirst : BOOLEAN]

\* this.targetResults = {} : every field reads as undefined
NoTargetResults == [cancelled |-> FALSE, delayTargeting |-> FALSE, payCostsFirst |-> FALSE]

\* new GameEvent(name, ...): not cancelled, not resolved
NewEvent(name) == [name |-> name, cancelled |-> FALSE, resolved |-> FALSE]

\* event.cancel()
CancelEvent(e) == [e EXCEPT !.cancelled = TRUE]

\* The name of the initiation event (openInitiateAbilityEventWindow, eventName)
InitiationEventName ==
    IF ability.cardAbility THEN "onCardAbilityInitiated" ELSE "onAbilityResolverInitiated"

IsInitiationEvent(e) ==
    e.name \in {"onCardAbilityInitiated", "onAbilityResolverInitiated"}

\* The events openInitiateAbilityEventWindow pushes on this.events, in order
InitiationEvents ==
    (IF ability.cardAbility /\ ability.cardPlayed
        THEN <<NewEvent("onCardPlayed")>> ELSE <<>>)
    \o (IF ability.cardAbility /\ ability.activated
        THEN <<NewEvent("onCardAbilityTriggered")>> ELSE <<>>)
    \o <<NewEvent(InitiationEventName)>>

\* passAbilityHandler.handler
PassAbilityHandler_NoCancel ==
    /\ passPriority' = TRUE
    /\ UNCHANGED <<cancelled, cancelCause>>
PassAbilityHandler ==
    /\ cancelled' = TRUE
    /\ passPriority' = TRUE
    /\ cancelCause' = IF cancelled THEN cancelCause ELSE "pass"

\* The Pass button of a target prompt is there only when a passAbilityHandler is
\* handed to the target resolver, that is when the ability is optional.
PassButton == IF ability.optional THEN BOOLEAN ELSE {FALSE}

\* The caller's part of ability.resolveTargets(context, passAbilityHandler) and
\* ability.resolveRemainingTargets: the new targetResults, and the pass handler
\* when the player presses Pass in a target prompt.
CallResolveTargets ==
    \E r \in TargetResultValues, pass \in PassButton :
        /\ targetResults' = r
        /\ IF pass THEN PassAbilityHandler
                   ELSE UNCHANGED <<cancelled, passPriority, cancelCause>>

\* this.passAbilityHandler && !this.passAbilityHandler.hasBeenShown
PassPromptDue_NoFlag == ability.optional
PassPromptDue == ability.optional /\ ~hasBeenShown

resolveEarlyTargets ==
    /\ Running("resolveEarlyTargets")
    /\ stage' = "PreTarget"
    /\ IF ~ability.cannotTargetFirst
          THEN CallResolveTargets
          ELSE UNCHANGED <<targetResults, cancelled, passPriority, cancelCause>>
    /\ earlyCancelled' = targetResults'.cancelled
    /\ Finish(<<>>)
    /\ UNCHANGED <<ability, sourceLocation, cardStateWhenInitiated, initiateAbility,
                   hasBeenShown, costResults, events, messages, promptsShown, passChosen,
                   handlerCalls, limitIncrements, firstCheck, targetStage>>

checkForCancelOrPass_Unguarded ==
    /\ Running("checkForCancelOrPass")
    /\ firstCheck' = IF firstCheck = "none"
                        THEN (IF cancelled THEN "cancelled" ELSE "open")
                        ELSE firstCheck
    /\ IF PassPromptDue
          THEN /\ Finish(<<"checkForPass">>)
               /\ UNCHANGED <<cancelled, cancelCause>>
          ELSE /\ cancelled' = targetResults.cancelled
               /\ cancelCause' = IF targetResults.cancelled THEN "targeting"
                                                            ELSE cancelCause
               /\ Finish(<<>>)
    /\ UNCHANGED <<ability, stage, sourceLocation, cardStateWhenInitiated, initiateAbility,
                   passPriority, hasBeenShown, targetResults, costResults, events, messages,
                   promptsShown, passChosen, handlerCalls, limitIncrements,
                   earlyCancelled, targetStage>>
checkForCancelOrPass ==
    /\ Running("checkForCancelOrPass")
    /\ firstCheck' = IF firstCheck = "none"
                        THEN (IF cancelled THEN "cancelled" ELSE "open")
                        ELSE firstCheck
    /\ IF cancelled
          THEN /\ Finish(<<>>)
               /\ UNCHANGED <<cancelled, cancelCause>>
          ELSE IF PassPromptDue
                  THEN /\ Finish(<<"checkForPass">>)
                       /\ UNCHANGED <<cancelled, cancelCause>>
                  ELSE /\ cancelled' = targetResults.cancelled
                       /\ cancelCause' = IF targetResults.cancelled THEN "targeting"
                                                                    ELSE cancelCause
                       /\ Finish(<<>>)
    /\ UNCHANGED <<ability, stage, sourceLocation, cardStateWhenInitiated, initiateAbility,
                   passPriority, hasBeenShown, targetResults, costResults, events, messages,
                   promptsShown, passChosen, handlerCalls, limitIncrements,
                   earlyCancelled, targetStage>>

checkForPass ==
    /\ Running("checkForPass")
    /\ IF cancelled
          THEN /\ Finish(<<>>)
               /\ UNCHANGED <<cancelled, cancelCause, hasBeenShown, promptsShown>>
          ELSE IF costResults.cancelled
                  THEN /\ cancelled' = TRUE
                       /\ cancelCause' = "costResolution"
                       /\ Finish(<<>>)
                       /\ UNCHANGED <<hasBeenShown, promptsShown>>
                  ELSE IF PassPromptDue
                          THEN /\ hasBeenShown' = TRUE
                               /\ promptsShown' = promptsShown + 1
                               /\ Finish(<<"handlerMenuPrompt">>)
                               /\ UNCHANGED <<cancelled, cancelCause>>
                          ELSE /\ Finish(<<>>)
                               /\ UNCHANGED <<cancelled, cancelCause, hasBeenShown,
                                              promptsShown>>
    /\ UNCHANGED <<ability, stage, sourceLocation, cardStateWhenInitiated, initiateAbility,
                   passPriority, targetResults, costResults, events, messages, passChosen,
                   handlerCalls, limitIncrements, firstCheck,
                   earlyCancelled, targetStage>>

\* The prompt of checkForPass: the player answers Trigger or Pass, and the prompt
\* calls the handler of that choice.
handlerMenuPrompt_Unanswered ==
    /\ Running("handlerMenuPrompt")
    /\ UNCHANGED vars
handlerMenuPrompt ==
    /\ Running("handlerMenuPrompt")
    /\ \E choice \in {"Trigger", "Pass"} :
          IF choice = "Pass"
             THEN PassAbilityHandler /\ passChosen' = TRUE
             ELSE UNCHANGED <<cancelled, passPriority, cancelCause, passChosen>>
    /\ Finish(<<>>)
    /\ UNCHANGED <<ability, stage, sourceLocation, cardStateWhenInitiated, initiateAbility,
                   hasBeenShown, targetResults, costResults, events, messages, promptsShown,
                   handlerCalls, limitIncrements, firstCheck,
                   earlyCancelled, targetStage>>

\* this.game.queueStep(new InitiateAbilityEventWindow(this.game, this.events)):
\* the only step openInitiateAbilityEventWindow queues
InitiateWindowSteps_Direct == <<"initiateAbilityEventWindow">> \o InitiateAbilitySteps
InitiateWindowSteps == <<"initiateAbilityEventWindow">>

openInitiateAbilityEventWindow ==
    /\ Running("openInitiateAbilityEventWindow")
    /\ IF cancelled
          THEN /\ Finish(<<>>)
               /\ UNCHANGED events
          ELSE /\ events' = events \o InitiationEvents
               /\ Finish(InitiateWindowSteps)
    /\ UNCHANGED <<ability, stage, sourceLocation, cardStateWhenInitiated, cancelled,
                   initiateAbility, passPriority, hasBeenShown, targetResults, costResults,
                   messages, promptsShown, passChosen, handlerCalls, limitIncrements,
                   cancelCause, firstCheck,
                   earlyCancelled, targetStage>>

\* What an event window does to a list of events when the abilities reacting to
\* the events in `reacted` cancel them: a cancelled event is not resolved, every
\* other event is resolved (its handler runs).
WindowResolve(evs, reacted) ==
    [i \in DOMAIN evs |->
        IF evs[i].cancelled \/ i \in reacted
           THEN [evs[i] EXCEPT !.cancelled = TRUE]
           ELSE [evs[i] EXCEPT !.resolved = TRUE]]

\* The InitiateAbilityEventWindow over this.events. The handler of the initiation
\* event is queueInitiateAbilitySteps (openInitiateAbilityEventWindow, the third
\* argument of new GameEvent).
initiateAbilityEventWindow ==
    /\ Running("initiateAbilityEventWindow")
    /\ \E reacted \in SUBSET DOMAIN events :
          /\ events' = WindowResolve(events, reacted)
          /\ IF \E i \in DOMAIN events : IsInitiationEvent(events'[i]) /\ events'[i].resolved
                THEN Finish(InitiateAbilitySteps)
                ELSE Finish(<<>>)
    /\ UNCHANGED <<ability, stage, sourceLocation, cardStateWhenInitiated, cancelled,
                   initiateAbility, passPriority, hasBeenShown, targetResults, costResults,
                   messages, promptsShown, passChosen, handlerCalls, limitIncrements,
                   cancelCause, firstCheck,
                   earlyCancelled, targetStage>>

\* The costResults ability.resolveCosts(context, costResults) may leave behind.
CostResultValues ==
    {[cancelled |-> c, events |-> [i \in 1..n |-> NewEvent("cost")]] :
        c \in BOOLEAN, n \in 0..MaxCostEvents}

resolveCosts ==
    /\ Running("resolveCosts")
    /\ IF cancelled
          THEN UNCHANGED <<stage, costResults>>
          ELSE /\ stage' = "Cost"
               /\ costResults' \in CostResultValues
    /\ Finish(<<>>)
    /\ UNCHANGED <<ability, sourceLocation, cardStateWhenInitiated, cancelled,
                   initiateAbility, passPriority, hasBeenShown, targetResults, events,
                   messages, promptsShown, passChosen, handlerCalls, limitIncrements,
                   cancelCause, firstCheck,
                   earlyCancelled, targetStage>>

payCosts ==
    /\ Running("payCosts")
    /\ IF cancelled
          THEN /\ Finish(<<>>)
               /\ UNCHANGED <<cancelled, cancelCause, passPriority>>
          ELSE IF costResults.cancelled
                  THEN /\ cancelled' = TRUE
                       /\ cancelCause' = "costResolution"
                       /\ Finish(<<>>)
                       /\ UNCHANGED passPriority
                  ELSE /\ passPriority' = TRUE
                       /\ IF Len(costResults.events) > 0
                             THEN Finish(<<"costEventWindow">>)
                             ELSE Finish(<<>>)
                       /\ UNCHANGED <<cancelled, cancelCause>>
    /\ UNCHANGED <<ability, stage, sourceLocation, cardStateWhenInitiated, initiateAbility,
                   hasBeenShown, targetResults, costResults, events, messages, promptsShown,
                   passChosen, handlerCalls, limitIncrements, firstCheck,
                   earlyCancelled, targetStage>>

\* game.openEventWindow(this.costResults.events)
costEventWindow ==
    /\ Running("costEventWindow")
    /\ \E reacted \in SUBSET DOMAIN costResults.events :
          costResults' = [costResults EXCEPT
                             !.events = WindowResolve(costResults.events, reacted)]
    /\ Finish(<<>>)
    /\ UNCHANGED <<ability, stage, sourceLocation, cardStateWhenInitiated, cancelled,
                   initiateAbility, passPriority, hasBeenShown, targetResults, events,
                   messages, promptsShown, passChosen, handlerCalls, limitIncrements,
                   cancelCause, firstCheck,
                   earlyCancelled, targetStage>>

\* costResults.events.some((event) => event.getResolutionEvent().cancelled)
SomeCostEventCancelled_Every(cr) == \A i \in DOMAIN cr.events : cr.events[i].cancelled
SomeCostEventCancelled(cr) == \E i \in DOMAIN cr.events : cr.events[i].cancelled

DidNotPayMessage ==
    [text |-> "attempted to use, but did not successfully pay the required costs",
     player |-> "context.player"]

NoLegalTargetsMessage ==
    [text |-> "attempted to use, but there are insufficient legal targets",
     player |-> "context.player"]

checkCostsWerePaid ==
    /\ Running("checkCostsWerePaid")
    /\ IF cancelled
          THEN UNCHANGED <<cancelled, cancelCause, messages>>
          ELSE /\ cancelled' = SomeCostEventCancelled(costResults)
               /\ IF cancelled'
                     THEN /\ messages' = Append(messages, DidNotPayMessage)
                          /\ cancelCause' = "costEvent"
                     ELSE UNCHANGED <<messages, cancelCause>>
    /\ Finish(<<>>)
    /\ UNCHANGED <<ability, stage, sourceLocation, cardStateWhenInitiated, initiateAbility,
                   passPriority, hasBeenShown, targetResults, costResults, events,
                   promptsShown, passChosen, handlerCalls, limitIncrements, firstCheck,
                   earlyCancelled, targetStage>>

\* The branch resolveTargets takes once it has set the stage; checkAllTargets is
\* asked only when neither delayTargeting nor payCostsFirst is set.
TargetStageCall_RetargetFirst(hasLegalTargets, checkAllTargets) ==
    IF ~hasLegalTargets THEN "cancel"
    ELSE IF targetResults.payCostsFirst \/ ~checkAllTargets THEN "resolveTargets"
    ELSE IF targetResults.delayTargeting THEN "resolveRemainingTargets"
    ELSE "none"
TargetStageCall(hasLegalTargets, checkAllTargets) ==
    IF ~hasLegalTargets THEN "cancel"
    ELSE IF targetResults.delayTargeting THEN "resolveRemainingTargets"
    ELSE IF targetResults.payCostsFirst \/ ~checkAllTargets THEN "resolveTargets"
    ELSE "none"

\* ability.checkAllTargets was called by resolveTargets
CheckAllTargetsAsked(hasLegalTargets) ==
    hasLegalTargets /\ ~targetResults.delayTargeting /\ ~targetResults.payCostsFirst

\* The body of resolveTargets behind its `if (this.cancelled)` return
TargetStage ==
    /\ stage' = "Target"
    /\ \E hasLegalTargets \in BOOLEAN, checkAllTargets \in BOOLEAN :
          LET call == TargetStageCall(hasLegalTargets, checkAllTargets) IN
          /\ targetStage' = <<[hasLegalTargets |-> hasLegalTargets,
                               checkAllTargets |-> IF CheckAllTargetsAsked(hasLegalTargets)
                                                      THEN <<checkAllTargets>> ELSE <<>>,
                               call |-> call]>>
          /\ CASE call = "cancel" ->
                      /\ messages' = Append(messages, NoLegalTargetsMessage)
                      /\ cancelled' = TRUE
                      /\ cancelCause' = "noLegalTargets"
                      /\ UNCHANGED <<targetResults, passPriority>>
               [] call \in {"resolveRemainingTargets", "resolveTargets"} ->
                      CallResolveTargets /\ UNCHANGED messages
               [] OTHER ->
                      UNCHANGED <<targetResults, cancelled, passPriority, cancelCause,
                                  messages>>

\* resolveTargets: sets the stage and looks for targets unless cancelled
resolveTargets_Unguarded ==
    /\ Running("resolveTargets")
    /\ TargetStage
    /\ Finish(<<>>)
    /\ UNCHANGED <<ability, sourceLocation, cardStateWhenInitiated, initiateAbility,
                   hasBeenShown, costResults, events, promptsShown, passChosen,
                   handlerCalls, limitIncrements, firstCheck,
                   earlyCancelled>>
resolveTargets ==
    /\ Running("resolveTargets")
    /\ IF cancelled
          THEN UNCHANGED <<stage, targetResults, cancelled, passPriority, cancelCause,
                           messages, targetStage>>
          ELSE TargetStage
    /\ Finish(<<>>)
    /\ UNCHANGED <<ability, sourceLocation, cardStateWhenInitiated, initiateAbility,
                   hasBeenShown, costResults, events, promptsShown, passChosen,
                   handlerCalls, limitIncrements, firstCheck,
                   earlyCancelled>>

\* The condition of initiateAbilityEffects for ability.limit.increment
LimitIsIncremented_InHand ==
    /\ ability.limit
    /\ (cardStateWhenInitiated = "none" \/ cardStateWhenInitiated = sourceLocation)
LimitIsIncremented ==
    /\ ability.limit
    /\ sourceLocation # "hand"
    /\ (cardStateWhenInitiated = "none" \/ cardStateWhenInitiated = sourceLocation)

\* for (const event of this.events) { event.cancel(); }
CancelAllEvents_First(evs) ==
    [i \in DOMAIN evs |-> IF i = 1 THEN CancelEvent(evs[i]) ELSE evs[i]]
CancelAllEvents(evs) == [i \in DOMAIN evs |-> CancelEvent(evs[i])]

initiateAbilityEffects_NoMove ==
    /\ Running("initiateAbilityEffects")
    /\ IF cancelled
          THEN /\ events' = CancelAllEvents(events)
               /\ Finish(<<>>)
               /\ UNCHANGED <<limitIncrements, initiateAbility>>
          ELSE /\ limitIncrements' = IF LimitIsIncremented THEN limitIncrements + 1
                                                           ELSE limitIncrements
               /\ UNCHANGED events
               /\ IF ability.activated
                     THEN /\ UNCHANGED initiateAbility
                          /\ Finish(<<"thenEventWindow">>)
                     ELSE /\ initiateAbility' = TRUE
                          /\ Finish(<<>>)
    /\ UNCHANGED <<ability, stage, sourceLocation, cardStateWhenInitiated, cancelled,
                   passPriority, hasBeenShown, targetResults, costResults, messages,
                   promptsShown, passChosen, handlerCalls, cancelCause, firstCheck,
                   earlyCancelled, targetStage>>
initiateAbilityEffects ==
    /\ Running("initiateAbilityEffects")
    /\ IF cancelled
          THEN /\ events' = CancelAllEvents(events)
               /\ Finish(<<>>)
               /\ UNCHANGED <<limitIncrements, initiateAbility>>
          ELSE /\ limitIncrements' = IF LimitIsIncremented THEN limitIncrements + 1
                                                           ELSE limitIncrements
               /\ UNCHANGED events
               /\ IF ability.activated
                     THEN /\ UNCHANGED initiateAbility
                          /\ IF ability.eventType
                                THEN Finish(<<"openEventWindow moveCard", "thenEventWindow">>)
                                ELSE Finish(<<"thenEventWindow">>)
                     ELSE /\ initiateAbility' = TRUE
                          /\ Finish(<<>>)
    /\ UNCHANGED <<ability, stage, sourceLocation, cardStateWhenInitiated, cancelled,
                   passPriority, hasBeenShown, targetResults, costResults, messages,
                   promptsShown, passChosen, handlerCalls, cancelCause, firstCheck,
                   earlyCancelled, targetStage>>

\* GameSystem.resolve queues this step for moveCard({ destination: Discard }): it
\* opens the event window of the move.
openEventWindowMoveCard ==
    /\ Running("openEventWindow moveCard")
    /\ Finish(<<"moveCardEventWindow">>)
    /\ UNCHANGED <<ability, stage, sourceLocation, cardStateWhenInitiated, cancelled,
                   initiateAbility, passPriority, hasBeenShown, targetResults, costResults,
                   events, messages, promptsShown, passChosen, handlerCalls,
                   limitIncrements, cancelCause, firstCheck,
                   earlyCancelled, targetStage>>

\* The event window of the move of the source to the discard zone: the move is
\* applied unless its event is cancelled or its condition fails.
moveCardEventWindow ==
    /\ Running("moveCardEventWindow")
    /\ \E applied \in BOOLEAN :
          sourceLocation' = IF applied THEN "discard" ELSE sourceLocation
    /\ Finish(<<>>)
    /\ UNCHANGED <<ability, stage, cardStateWhenInitiated, cancelled, initiateAbility,
                   passPriority, hasBeenShown, targetResults, costResults, events, messages,
                   promptsShown, passChosen, handlerCalls, limitIncrements, cancelCause,
                   firstCheck,
                   earlyCancelled, targetStage>>

\* game.openThenEventWindow(new InitiateCardAbilityEvent(..., () => this.initiateAbility = true))
thenEventWindow ==
    /\ Running("thenEventWindow")
    /\ \E resolved \in BOOLEAN :
          initiateAbility' = IF resolved THEN TRUE ELSE initiateAbility
    /\ Finish(<<>>)
    /\ UNCHANGED <<ability, stage, sourceLocation, cardStateWhenInitiated, cancelled,
                   passPriority, hasBeenShown, targetResults, costResults, events, messages,
                   promptsShown, passChosen, handlerCalls, limitIncrements, cancelCause,
                   firstCheck,
                   earlyCancelled, targetStage>>

\* executeHandler: calls the handler unless cancelled or initiateAbility is unset
executeHandler_Unflagged ==
    /\ Running("executeHandler")
    /\ IF cancelled
          THEN UNCHANGED <<stage, handlerCalls>>
          ELSE /\ stage' = "EffectTmp"
               /\ handlerCalls' = handlerCalls + 1
    /\ Finish(<<>>)
    /\ UNCHANGED <<ability, sourceLocation, cardStateWhenInitiated, cancelled,
                   initiateAbility, passPriority, hasBeenShown, targetResults, costResults,
                   events, messages, promptsShown, passChosen, limitIncrements, cancelCause,
                   firstCheck,
                   earlyCancelled, targetStage>>
executeHandler ==
    /\ Running("executeHandler")
    /\ IF cancelled \/ ~initiateAbility
          THEN UNCHANGED <<stage, handlerCalls>>
          ELSE /\ stage' = "EffectTmp"
               /\ handlerCalls' = handlerCalls + 1
    /\ Finish(<<>>)
    /\ UNCHANGED <<ability, sourceLocation, cardStateWhenInitiated, cancelled,
                   initiateAbility, passPriority, hasBeenShown, targetResults, costResults,
                   events, messages, promptsShown, passChosen, limitIncrements, cancelCause,
                   firstCheck,
                   earlyCancelled, targetStage>>

\* The abilities a resolver may be built for: only a card ability is a played
\* card or an activated ability, and only an activated ability has type Event.
Abilities ==
    {a \in [optional : BOOLEAN, cannotTargetFirst : BOOLEAN, cardAbility : BOOLEAN,
            cardPlayed : BOOLEAN, activated : BOOLEAN, eventType : BOOLEAN,
            limit : BOOLEAN] :
        /\ a.cardPlayed => a.cardAbility
        /\ a.activated => a.cardAbility
        /\ a.eventType => a.activated}

\* No game system is at work.
GsIdle ==
    /\ gsSystem = [class |-> "none"]
    /\ gsCards = <<>>
    /\ gsContext = [stage |-> "none", inChain |-> FALSE]
    /\ gsEvents = <<>>
    /\ gsPhase = "idle"

\* No anonymous pipeline is at work.
PIdle ==
    /\ pQueue = <<>>
    /\ pNextId = 0
    /\ pLog = <<>>

\* No cost is being computed.
CIdle ==
    /\ cCard = [cost |-> 0, aspects |-> "null"]
    /\ cPlayerAspects = [leader |-> <<>>, base |-> <<>>]
    /\ costAdjusters = <<>>
    /\ cCalls = 0
    /\ cBefore = <<>>
    /\ cFirstCost = <<>>
    /\ cAdjustedCost = <<>>
    /\ cMinimumCost = <<>>

\* No leaves-play event is at work.
LIdle ==
    /\ lCards = <<>>
    /\ lLegalLocations = <<>>
    /\ lEvents = <<>>
    /\ lPhase = "idle"
    /\ lApplied = <<>>
    /\ lMessages = <<>>
    /\ lFailed = FALSE

\* No system is being resolved on cards with additional costs.
UIdle ==
    /\ uTargets = <<>>
    /\ uCosts = <<>>
    /\ uAllCostsPaid = <<>>
    /\ uEvents = <<>>
    /\ uPipeline = <<>>
    /\ uWindow = <<>>
    /\ uMessages = <<>>

\* Nothing but the specification's own part of the game is at work.
MIdle == mRegistry = <<>>

\* No card is being moved between the piles of two players.
ZIdle ==
    /\ zCards = <<>>
    /\ zPiles = <<>>
    /\ zCall = <<>>
    /\ zFailed = FALSE
    /\ zCount = 0
    /\ zFailures = 0

\* No target list has been checked.
TIdle == gsChecked = <<>>

MoreIdle == MIdle /\ ZIdle /\ TIdle

OtherIdle == CIdle /\ LIdle /\ UIdle /\ MoreIdle

\* AbilityResolver.constructor
Init ==
    /\ GsIdle
    /\ PIdle
    /\ OtherIdle
    /\ ability \in Abilities
    /\ stage = "none"
    /\ sourceLocation \in {"hand", "groundArena"}
    /\ cardStateWhenInitiated \in {"none", "groundArena"}
    /\ cancelled = FALSE
    /\ initiateAbility = FALSE
    /\ passPriority = FALSE
    /\ hasBeenShown = FALSE
    /\ targetResults = NoTargetResults
    /\ costResults = GetCostResults
    /\ events = <<>>
    /\ pipeline = InitialSteps
    /\ messages = <<>>
    /\ trace = <<>>
    /\ promptsShown = 0
    /\ passChosen = FALSE
    /\ handlerCalls = 0
    /\ limitIncrements = 0
    /\ cancelCause = "none"
    /\ firstCheck = "none"
    /\ earlyCancelled = FALSE
    /\ targetStage = <<>>

Next ==
    \/ resolveEarlyTargets
    \/ checkForCancelOrPass
    \/ checkForPass
    \/ handlerMenuPrompt
    \/ openInitiateAbilityEventWindow
    \/ initiateAbilityEventWindow
    \/ resolveCosts
    \/ payCosts
    \/ costEventWindow
    \/ checkCostsWerePaid
    \/ resolveTargets
    \/ initiateAbilityEffects
    \/ openEventWindowMoveCard
    \/ moveCardEventWindow
    \/ thenEventWindow
    \/ executeHandler

Spec == Init /\ [][Next]_vars

\* The resolutions of a card on the ground arena whose state at initiation was
\* not recorded: where the source is matters to the limit only, which no step
\* reads.
InitLive ==
    /\ Init
    /\ sourceLocation = "groundArena"
    /\ cardStateWhenInitiated = "none"

\* The pipeline runs its front step as long as it has one: every prompt gets
\* its answer and every event window resolves.
SpecLive == InitLive /\ [][Next]_vars /\ WF_vars(Next)

\* No resolver is at work.
ResolverIdle ==
    /\ ability = [optional |-> FALSE, cannotTargetFirst |-> FALSE, cardAbility |-> FALSE,
                  cardPlayed |-> FALSE, activated |-> FALSE, eventType |-> FALSE,
                  limit |-> FALSE]
    /\ stage = "none"
    /\ sourceLocation = "hand"
    /\ cardStateWhenInitiated = "none"
    /\ cancelled = FALSE
    /\ initiateAbility = FALSE
    /\ passPriority = FALSE
    /\ hasBeenShown = FALSE
    /\ targetResults = NoTargetResults
    /\ costResults = GetCostResults
    /\ events = <<>>
    /\ pipeline = <<>>
    /\ messages = <<>>
    /\ trace = <<>>
    /\ promptsShown = 0
    /\ passChosen = FALSE
    /\ handlerCalls = 0
    /\ limitIncrements = 0
    /\ cancelCause = "none"
    /\ firstCheck = "none"
    /\ earlyCancelled = FALSE
    /\ targetStage = <<>>

(***************************************************************************)
(* Card types and filters (EnumHelpers)                                    *)
(***************************************************************************)

CardTypes ==
    {"base", "event", "leader", "nonLeaderUnit", "upgrade", "tokenUnit", "tokenUpgrade",
     "leaderUnit"}

\* EnumHelpers.isUnit
isUnit(cardType) == cardType \in {"unit", "nonLeaderUnit", "leaderUnit", "tokenUnit"}

\* EnumHelpers.isToken
isToken(cardType) == cardType \in {"token", "tokenUpgrade", "tokenUnit"}

\* EnumHelpers.cardTypeMatches, the filter given as the set of its entries
cardTypeMatches(cardType, cardTypeFilter) ==
    \E allowedCardType \in cardTypeFilter :
        CASE allowedCardType = "any" -> TRUE
          [] allowedCardType = "unit" -> isUnit(cardType)
          [] allowedCardType = "token" -> isToken(cardType)
          [] OTHER -> cardType = allowedCardType

(***************************************************************************)
(* GameSystem and CardTargetSystem                                         *)
(***************************************************************************)

\* The cards a system is resolved on (properties.target), in order.
Cards == <<"card1", "card2">>

\* CardTargetSystem.isTargetTypeValid; a system of another class decides by its
\* own list of valid types, which the model keeps in the same field.
isTargetTypeValid(target) == cardTypeMatches(gsCards[target].type, gsSystem.targetTypeFilter)

\* GameSystem.canAffect
canAffect_NoOverride(target) ==
    /\ isTargetTypeValid(target)
    /\ ~gsContext.inChain
    /\ ~gsCards[target].restricted
canAffect(target) ==
    /\ isTargetTypeValid(target)
    /\ ~gsContext.inChain
    /\ \/ (gsContext.stage = "EffectTmp" /\ gsSystem.cannotBeCancelled)
       \/ ~gsCards[target].restricted

\* The loop of GameSystem.hasLegalTarget over the candidate targets
RECURSIVE hasLegalTarget(_)
hasLegalTarget_First(targets) == targets # <<>> /\ canAffect(Head(targets))
hasLegalTarget(targets) ==
    IF targets = <<>> THEN FALSE
    ELSE IF canAffect(Head(targets)) THEN TRUE
    ELSE hasLegalTarget(Tail(targets))

\* The loop of GameSystem.allTargetsLegal over the candidate targets
RECURSIVE allTargetsLegal(_)
allTargetsLegal(targets) ==
    IF targets = <<>> THEN TRUE
    ELSE IF ~canAffect(Head(targets)) THEN FALSE
    ELSE allTargetsLegal(Tail(targets))

\* What this.targets(context, additionalProperties) can be: the target list of
\* generatePropertiesFromContext, possibly empty
CandidateLists ==
    {SubSeq(Cards, i, j) : i \in 1..(Len(Cards) + 1), j \in 0..Len(Cards)}

\* GameSystem.checkEventCondition
GameSystem_checkEventCondition(event) == TRUE

\* CardTargetSystem.checkEventCondition
CardTargetSystem_checkEventCondition_AtCreation(event) == event.legalAtCreation
CardTargetSystem_checkEventCondition(event) == canAffect(event.card)

\* event.condition as GameSystem.updateEvent sets it: the checkEventCondition of
\* the system's class, evaluated when the condition is called.
EventCondition(event) ==
    IF gsSystem.class = "CardTargetSystem"
       THEN CardTargetSystem_checkEventCondition(event)
       ELSE GameSystem_checkEventCondition(event)

\* GameSystem.generateEvent: createEvent then updateEvent
generateEvent(target) ==
    [card |-> target, cancelled |-> FALSE, resolved |-> FALSE,
     legalAtCreation |-> canAffect(target), legalAtApply |-> FALSE]

\* The loop of GameSystem.generateEventsForAllTargets: the targets canAffect
\* accepts, in order
RECURSIVE LegalTargets(_)
LegalTargets(ts) ==
    IF ts = <<>> THEN <<>>
    ELSE (IF canAffect(Head(ts)) THEN <<Head(ts)>> ELSE <<>>) \o LegalTargets(Tail(ts))

\* The events are put in an event window, which will apply them in order.
OpenEventWindow(targets) ==
    /\ gsEvents' = [i \in DOMAIN targets |-> generateEvent(targets[i])]
    /\ gsPhase' = "window"

\* GameSystem.generateEventsForAllTargets: one event per target canAffect accepts
GameSystem_generateEventsForAllTargets ==
    /\ gsPhase = "generate"
    /\ gsSystem.class = "GameSystem"
    /\ OpenEventWindow(LegalTargets(Cards))
    /\ UNCHANGED <<gsSystem, gsCards, gsContext, resolverVars, pVars, otherVars>>

\* CardTargetSystem.generateEventsForAllTargets for cards without additional
\* costs: allCostsPaid stays true and an event is pushed for every card.
CardTargetSystem_generateEventsForAllTargets ==
    /\ gsPhase = "generate"
    /\ gsSystem.class = "CardTargetSystem"
    /\ OpenEventWindow(Cards)
    /\ UNCHANGED <<gsSystem, gsCards, gsContext, resolverVars, pVars, otherVars>>

\* GameSystem.hasLegalTarget and GameSystem.allTargetsLegal are called for a
\* candidate list, before the system is resolved.
checkLegalTargets ==
    /\ gsPhase = "generate"
    /\ \E targets \in CandidateLists :
          gsChecked' = <<[targets |-> targets,
                          legal |-> [c \in DOMAIN gsCards |-> canAffect(c)],
                          hasLegalTarget |-> hasLegalTarget(targets),
                          allTargetsLegal |-> allTargetsLegal(targets)]>>
    /\ UNCHANGED <<gsVars, resolverVars, pVars, cVars, lVars, uVars, mVars, zVars>>

\* Between the creation of an event and its application an ongoing effect puts a
\* restriction naming the system on a card, or lifts one.
restrictionChanges ==
    /\ gsPhase = "window"
    /\ \E c \in DOMAIN gsCards :
          gsCards' = [gsCards EXCEPT ![c].restricted = ~gsCards[c].restricted]
    /\ UNCHANGED <<gsSystem, gsContext, gsEvents, gsPhase, resolverVars, pVars, otherVars>>

Stages == {"PreTarget", "Cost", "Target", "EffectTmp"}

\* The resolution the context belongs to moves to another stage.
stageChanges ==
    /\ gsPhase = "window"
    /\ \E s \in Stages \ {gsContext.stage} :
          gsContext' = [gsContext EXCEPT !.stage = s]
    /\ UNCHANGED <<gsSystem, gsCards, gsEvents, gsPhase, resolverVars, pVars, otherVars>>

\* The system enters or leaves context.gameActionsResolutionChain.
chainChanges ==
    /\ gsPhase = "window"
    /\ gsContext' = [gsContext EXCEPT !.inChain = ~gsContext.inChain]
    /\ UNCHANGED <<gsSystem, gsCards, gsEvents, gsPhase, resolverVars, pVars, otherVars>>

\* The events the window has not settled yet.
Unsettled == {i \in DOMAIN gsEvents : ~gsEvents[i].cancelled /\ ~gsEvents[i].resolved}

\* The event window applies its next event: it calls the event's condition, and
\* runs the handler only if the condition holds; otherwise the event is cancelled.
applyEvent ==
    /\ gsPhase = "window"
    /\ Unsettled # {}
    /\ LET i == CHOOSE j \in Unsettled : \A k \in Unsettled : j <= k
           e == [gsEvents[i] EXCEPT !.legalAtApply = canAffect(gsEvents[i].card)]
       IN gsEvents' = [gsEvents EXCEPT
                          ![i] = IF EventCondition(e)
                                    THEN [e EXCEPT !.resolved = TRUE]
                                    ELSE [e EXCEPT !.cancelled = TRUE]]
    /\ UNCHANGED <<gsSystem, gsCards, gsContext, gsPhase, resolverVars, pVars, otherVars>>

\* The systems, cards and contexts the event claims are checked on.
InitEvents ==
    /\ ResolverIdle
    /\ PIdle
    /\ OtherIdle
    /\ gsSystem \in [class : {"GameSystem", "CardTargetSystem"},
                     targetTypeFilter : {{"any"}, {"unit"}, {"upgrade", "tokenUpgrade"}},
                     cannotBeCancelled : BOOLEAN]
    /\ gsCards \in [{Cards[i] : i \in DOMAIN Cards} -> [type : {"nonLeaderUnit", "upgrade"},
                                     restricted : BOOLEAN]]
    /\ gsContext \in [stage : {"Target", "EffectTmp"}, inChain : {FALSE}]
    /\ gsEvents = <<>>
    /\ gsPhase = "generate"

NextEvents ==
    \/ checkLegalTargets
    \/ GameSystem_generateEventsForAllTargets
    \/ CardTargetSystem_generateEventsForAllTargets
    \/ restrictionChanges
    \/ stageChanges
    \/ chainChanges
    \/ applyEvent

SpecEvents == InitEvents /\ [][NextEvents]_vars

(***************************************************************************)
(* A pipeline of anonymous steps, each free to queue steps at the front    *)
(* and at the back while it runs                                           *)
(***************************************************************************)

\* Most steps ever queued in one run of the pipeline.
MaxSteps == 6

\* Most steps one running step queues at the front, and at the back.
MaxQueued == 2

\* A running step queues trailing steps: they go behind the whole queue.
QueueTrailingSteps(rest, queued) == rest \o queued

\* The ids first, first + 1, ... of n steps queued one after the other
NewSteps(first, n) == [i \in 1..n |-> first + i - 1]

\* The pipeline pops its front step and runs it to completion; the step queues
\* nFront steps at the front and nBack trailing steps.
runStep ==
    /\ pQueue # <<>>
    /\ \E nFront \in 0..MaxQueued, nBack \in 0..MaxQueued :
          /\ pNextId + nFront + nBack <= MaxSteps + 1
          /\ LET front == NewSteps(pNextId, nFront)
                 back == NewSteps(pNextId + nFront, nBack)
             IN /\ pQueue' = QueueTrailingSteps(QueueSteps(Tail(pQueue), front), back)
                /\ pLog' = Append(pLog, [step |-> Head(pQueue), front |-> front,
                                         back |-> back, behind |-> Tail(pQueue)])
                /\ pNextId' = pNextId + nFront + nBack
    /\ UNCHANGED <<resolverVars, gsVars, otherVars>>

\* pipeline.initialise([...]) with two steps
InitPipeline ==
    /\ ResolverIdle
    /\ GsIdle
    /\ OtherIdle
    /\ pQueue = <<1, 2>>
    /\ pNextId = 3
    /\ pLog = <<>>

NextPipeline == runStep

SpecPipeline == InitPipeline /\ [][NextPipeline]_vars

(***************************************************************************)
(* Player: cost adjustment                                                 *)
(***************************************************************************)

\* Most cost adjusters a player has registered at one time.
MaxAdjusters == 2

\* The penalty one unmatched aspect adds before the adjusters run
\* (the literal 2 handed to runAdjustersForCostType in getAdjustedCost).
PenaltyUnit == 2

Aspects == {"a1", "a2"}

\* penaltyAspect as runAdjustersForCostType hands it to canAdjust: an aspect in
\* the pass on one aspect penalty, null in the pass on the penalized cost.
NoPenaltyAspect == "null"

Min(a, b) == IF a <= b THEN a ELSE b

Max(a, b) == IF a >= b THEN a ELSE b

\* The adjusters addCostAdjuster registers: a signed amount (getAmount; below
\* zero it increases the cost), a floor, and the passes its applicability
\* predicate accepts for the play at hand.
Adjusters ==
    [amount : {-1, 1},
     costFloor : {-1, 0, 2},
     passes : {{NoPenaltyAspect}, {"a1"}, {NoPenaltyAspect} \cup Aspects}]

\* adjuster.canAdjust(playingType, card, target, ignoreType, penaltyAspect)
canAdjust(adjuster, penaltyAspect) == penaltyAspect \in adjuster.passes

\* Player.getAspects
getAspects == cPlayerAspects.leader \o cPlayerAspects.base

\* playerAspects.indexOf(aspect), counted from 1; 0 when the aspect is absent
IndexOf(q, x) ==
    IF \E i \in DOMAIN q : q[i] = x
       THEN CHOOSE i \in DOMAIN q : q[i] = x /\ \A j \in 1..(i - 1) : q[j] # x
       ELSE 0

\* playerAspects.splice(matchedIndex, 1)
Splice_Kept(q, i) == q
Splice(q, i) == SubSeq(q, 1, i - 1) \o SubSeq(q, i + 1, Len(q))

\* The loop of Player.getPenaltyAspects: the penalty aspects found, and what is
\* left of the playerAspects array it splices.
RECURSIVE PenaltyLoop(_, _)
PenaltyLoop(costAspects, playerAspects) ==
    IF costAspects = <<>>
       THEN [penaltyAspects |-> <<>>, playerAspects |-> playerAspects]
       ELSE LET matchedIndex == IndexOf(playerAspects, Head(costAspects))
            IN IF matchedIndex = 0
                  THEN LET rest == PenaltyLoop(Tail(costAspects), playerAspects)
                       IN [rest EXCEPT !.penaltyAspects = <<Head(costAspects)>> \o @]
                  ELSE PenaltyLoop(Tail(costAspects), Splice(playerAspects, matchedIndex))

\* Player.getPenaltyAspects
getPenaltyAspects(costAspects) ==
    IF costAspects = "null"
       THEN <<>>
       ELSE PenaltyLoop(costAspects, getAspects).penaltyAspects

\* The array getPenaltyAspects has spliced is the one getAspects built with
\* concat: this.leader.aspects and this.base.aspects are as they were.
AspectsAfterPenaltyLoop_InPlace(costAspects) ==
    IF costAspects = "null"
       THEN cPlayerAspects
       ELSE [leader |-> PenaltyLoop(costAspects, getAspects).playerAspects, base |-> <<>>]
AspectsAfterPenaltyLoop(costAspects) == cPlayerAspects

\* this.costAdjusters.filter((adjuster) => adjuster.canAdjust(...))
RECURSIVE MatchingAdjusters(_, _)
MatchingAdjusters(adjusters, penaltyAspect) ==
    IF adjusters = <<>> THEN <<>>
    ELSE (IF canAdjust(Head(adjusters), penaltyAspect) THEN <<Head(adjusters)>> ELSE <<>>)
         \o MatchingAdjusters(Tail(adjusters), penaltyAspect)

\* matchingAdjusters.filter(getAmount < 0).reduce((cost, a) => cost - getAmount, 0)
RECURSIVE CostIncreases(_)
CostIncreases(matching) ==
    IF matching = <<>> THEN 0
    ELSE (IF Head(matching).amount < 0 THEN 0 - Head(matching).amount ELSE 0)
         + CostIncreases(Tail(matching))

\* matchingAdjusters.filter(getAmount > 0).reduce((cost, a) => cost + getAmount, 0)
RECURSIVE CostDecreases(_)
CostDecreases(matching) ==
    IF matching = <<>> THEN 0
    ELSE (IF Head(matching).amount > 0 THEN Head(matching).amount ELSE 0)
         + CostDecreases(Tail(matching))

\* Math.max(...matchingAdjusters.map((a) => a.costFloor)) on a non-empty list
RECURSIVE HighestFloor(_)
HighestFloor(matching) ==
    IF Len(matching) = 1 THEN Head(matching).costFloor
    ELSE Max(Head(matching).costFloor, HighestFloor(Tail(matching)))

RECURSIVE LowestFloor(_)
LowestFloor(matching) ==
    IF Len(matching) = 1 THEN Head(matching).costFloor
    ELSE Min(Head(matching).costFloor, LowestFloor(Tail(matching)))

\* costFloor = Math.min(baseCost, Math.max(...floors)), for a non-empty list
CostFloor_Lowest(baseCost, matching) == Min(baseCost, LowestFloor(matching))
CostFloor(baseCost, matching) == Min(baseCost, HighestFloor(matching))

\* Player.runAdjustersForCostType. With no matching adjuster Math.max() is
\* -Infinity, so is costFloor, and reducedCost is returned.
runAdjustersForCostType_FloorOnBaseCost(baseCost, penaltyAspect) ==
    LET matchingAdjusters == MatchingAdjusters(costAdjusters, penaltyAspect)
        increased == baseCost + CostIncreases(matchingAdjusters)
        reducedCost == increased - CostDecreases(matchingAdjusters)
    IN IF matchingAdjusters = <<>>
          THEN reducedCost
          ELSE Max(reducedCost, CostFloor(baseCost, matchingAdjusters))
runAdjustersForCostType(baseCost, penaltyAspect) ==
    LET matchingAdjusters == MatchingAdjusters(costAdjusters, penaltyAspect)
        increased == baseCost + CostIncreases(matchingAdjusters)
        reducedCost == increased - CostDecreases(matchingAdjusters)
    IN IF matchingAdjusters = <<>>
          THEN reducedCost
          ELSE Max(reducedCost, CostFloor(increased, matchingAdjusters))

\* The loop of getAdjustedCost over the penalty aspects: aspectPenaltiesTotal
RECURSIVE AspectPenaltiesTotal(_)
AspectPenaltiesTotal(penaltyAspects) ==
    IF penaltyAspects = <<>> THEN 0
    ELSE runAdjustersForCostType(PenaltyUnit, Head(penaltyAspects))
         + AspectPenaltiesTotal(Tail(penaltyAspects))

\* penalizedCost = card.cost + aspectPenaltiesTotal
PenalizedCost_NoPenalty(cost, aspectPenaltiesTotal) == cost
PenalizedCost(cost, aspectPenaltiesTotal) == cost + aspectPenaltiesTotal

\* The value Player.getAdjustedCost returns
AdjustedCost ==
    runAdjustersForCostType(
        PenalizedCost(cCard.cost, AspectPenaltiesTotal(getPenaltyAspects(cCard.aspects))),
        NoPenaltyAspect)

\* The player's state a cost computation reads
PlayerCostState == [costAdjusters |-> costAdjusters, aspects |-> cPlayerAspects]

\* One more call of getAdjustedCost is on record.
RecordAdjustedCost ==
    /\ cCalls' = IF cCalls = 0 THEN 1 ELSE 2
    /\ cBefore' = IF cCalls = 0 THEN <<PlayerCostState>> ELSE cBefore
    /\ cFirstCost' = IF cCalls = 0 THEN <<AdjustedCost>> ELSE cFirstCost
    /\ cAdjustedCost' = <<AdjustedCost>>
    /\ cPlayerAspects' = AspectsAfterPenaltyLoop(cCard.aspects)

\* The player's state changes: the calls on record are those of another state.
ForgetCosts ==
    /\ cCalls' = 0
    /\ cBefore' = <<>>
    /\ cFirstCost' = <<>>
    /\ cAdjustedCost' = <<>>
    /\ cMinimumCost' = <<>>

\* Player.getAdjustedCost
getAdjustedCost ==
    /\ RecordAdjustedCost
    /\ UNCHANGED <<cCard, costAdjusters, cMinimumCost>>
    /\ UNCHANGED notCostVars

\* Player.getMinimumPossibleCost
getMinimumPossibleCost ==
    /\ RecordAdjustedCost
    /\ cMinimumCost' = <<Max(AdjustedCost, 0)>>
    /\ UNCHANGED <<cCard, costAdjusters>>
    /\ UNCHANGED notCostVars

\* Player.addCostAdjuster
addCostAdjuster ==
    /\ Len(costAdjusters) < MaxAdjusters
    /\ \E adjuster \in Adjusters : costAdjusters' = Append(costAdjusters, adjuster)
    /\ ForgetCosts
    /\ UNCHANGED <<cCard, cPlayerAspects>>
    /\ UNCHANGED notCostVars

\* Player.removeCostAdjuster, for an adjuster of the registry
removeCostAdjuster ==
    /\ \E i \in DOMAIN costAdjusters : costAdjusters' = Splice(costAdjusters, i)
    /\ ForgetCosts
    /\ UNCHANGED <<cCard, cPlayerAspects>>
    /\ UNCHANGED notCostVars

\* A card to play, its cost aspects, and the aspects of the player's leader and
\* base; the player has no cost adjuster yet (Player.constructor).
InitCost ==
    /\ ResolverIdle
    /\ GsIdle
    /\ PIdle
    /\ LIdle
    /\ UIdle
    /\ MoreIdle
    /\ cCard \in [cost : {0, 2}, aspects : {"null", <<"a1", "a2">>}]
    /\ cPlayerAspects \in [leader : {<<>>, <<"a1">>}, base : {<<>>, <<"a2">>}]
    /\ costAdjusters = <<>>
    /\ cCalls = 0
    /\ cBefore = <<>>
    /\ cFirstCost = <<>>
    /\ cAdjustedCost = <<>>
    /\ cMinimumCost = <<>>

NextCost ==
    \/ getAdjustedCost
    \/ getMinimumPossibleCost
    \/ addCostAdjuster
    \/ removeCostAdjuster

SpecCost == InitCost /\ [][NextCost]_vars

(***************************************************************************)
(* Player.getPenaltyAspects on cost aspects that repeat                    *)
(***************************************************************************)

\* Most cost aspects of a card, and most aspects of a leader.
MaxCostAspects == 2

\* The aspect arrays of at most n aspects
RECURSIVE AspectLists(_)
AspectLists(n) ==
    IF n = 0
       THEN {<<>>}
       ELSE AspectLists(n - 1)
            \cup {Append(q, a) : q \in AspectLists(n - 1), a \in Aspects}

\* A card to play with any cost aspects, repeated ones included, for a player
\* whose leader and base grant any aspects; the player has no cost adjuster.
InitPenalty ==
    /\ ResolverIdle
    /\ GsIdle
    /\ PIdle
    /\ LIdle
    /\ UIdle
    /\ MoreIdle
    /\ \/ cCard \in [cost : {0, 2}, aspects : {"null"}]
       \/ cCard \in [cost : {0, 2}, aspects : AspectLists(MaxCostAspects)]
    /\ cPlayerAspects \in [leader : AspectLists(MaxCostAspects), base : AspectLists(1)]
    /\ costAdjusters = <<>>
    /\ cCalls = 0
    /\ cBefore = <<>>
    /\ cFirstCost = <<>>
    /\ cAdjustedCost = <<>>
    /\ cMinimumCost = <<>>

NextPenalty == getAdjustedCost

SpecPenalty == InitPenalty /\ [][NextPenalty]_vars

(***************************************************************************)
(* Player.markUsedAdjusters                                                *)
(***************************************************************************)

notMarkUsedVars == <<resolverVars, gsVars, pVars, lVars, uVars, zVars, tVars>>

\* penaltyAspect as markUsedAdjusters hands it to canAdjust when the play has
\* cost aspects: the `aspects` array itself, not one of its aspects.
AspectsArray == "aspects"

\* Adjusters with a use count: 1 or 2 uses left. The applicability predicate of
\* each accepts some of the penaltyAspect arguments it can be handed: null, an
\* aspect, or the aspects array.
LimitedAdjusters ==
    [amount : {1},
     costFloor : {0},
     passes : {{NoPenaltyAspect, AspectsArray} \cup Aspects,
               {NoPenaltyAspect, AspectsArray},
               {NoPenaltyAspect},
               {"a1"},
               {"a1", AspectsArray}},
     uses : {1, 2}]

\* The registries addCostAdjuster can have built with such adjusters
RECURSIVE Registries(_)
Registries(n) ==
    IF n = 0 THEN {<<>>}
    ELSE Registries(n - 1)
         \cup {Append(r, a) : r \in {q \in Registries(n - 1) : Len(q) = n - 1},
                              a \in LimitedAdjusters}

\* adjuster.markUsed(): one use is consumed
markUsed(adjuster) == [adjuster EXCEPT !.uses = @ - 1]

\* adjuster.isExpired(): no use remains
isExpired(adjuster) == adjuster.uses = 0

\* The fifth argument of canAdjust in markUsedAdjusters: its `aspects` parameter
MarkUsedPenaltyAspect(aspects) ==
    IF aspects = "null" THEN NoPenaltyAspect ELSE AspectsArray

\* The forEach of markUsedAdjusters over the registry: each adjuster canAdjust
\* accepts is marked used, and removed from the registry if that expired it.
RECURSIVE MarkUsedLoop(_, _)
MarkUsedLoop(adjusters, penaltyAspect) ==
    IF adjusters = <<>> THEN <<>>
    ELSE LET adjuster == Head(adjusters)
             rest == MarkUsedLoop(Tail(adjusters), penaltyAspect)
         IN IF canAdjust(adjuster, penaltyAspect)
               THEN IF isExpired(markUsed(adjuster))
                       THEN rest
                       ELSE <<markUsed(adjuster)>> \o rest
               ELSE <<adjuster>> \o rest

\* Player.markUsedAdjusters(playingType, card, target, aspects)
markUsedAdjusters ==
    /\ mRegistry' = <<costAdjusters>>
    /\ costAdjusters' = MarkUsedLoop(costAdjusters, MarkUsedPenaltyAspect(cCard.aspects))
    /\ UNCHANGED <<cCard, cPlayerAspects, cCalls, cBefore, cFirstCost, cAdjustedCost,
                   cMinimumCost>>
    /\ UNCHANGED notMarkUsedVars

\* A card being played, its cost aspects, the aspects of the player's leader
\* and base, and the adjusters registered so far.
InitMarkUsed ==
    /\ ResolverIdle
    /\ GsIdle
    /\ PIdle
    /\ LIdle
    /\ UIdle
    /\ cCard \in [cost : {2}, aspects : {"null", <<"a1", "a2">>}]
    /\ cPlayerAspects \in [leader : {<<>>, <<"a1">>}, base : {<<>>, <<"a2">>}]
    /\ costAdjusters \in Registries(MaxAdjusters)
    /\ cCalls = 0
    /\ cBefore = <<>>
    /\ cFirstCost = <<>>
    /\ cAdjustedCost = <<>>
    /\ cMinimumCost = <<>>
    /\ mRegistry = <<>>
    /\ ZIdle
    /\ TIdle

NextMarkUsed == markUsedAdjusters

SpecMarkUsed == InitMarkUsed /\ [][NextMarkUsed]_vars

(***************************************************************************)
(* Leaves-play events: CardTargetSystem.addLeavesPlayPropertiesToEvent,    *)
(* leavesPlayEventHandler, Player.moveCard, and the window of the events   *)
(***************************************************************************)

UnitCards == <<"unit1", "unit2">>

UpgradeCards == <<"upg1", "upg2">>

LeavesPlayCards == {"unit1", "unit2", "upg1", "upg2"}

\* EnumHelpers.isArena
isArena(location) == location \in {"groundArena", "spaceArena", "anyArena"}

\* EnumHelpers.cardLocationMatches, for a list of plain locations
cardLocationMatches(cardLocation, locationFilter) == cardLocation \in locationFilter

\* What Helpers.defaultLegalLocationsForCardType hands back for a card type: a
\* list of locations, or nothing at all.
DrawCardLocations ==
    {"hand", "deck", "discard", "removedFromGame", "spaceArena", "groundArena", "resource"}

NoLegalLocations == [defined |-> FALSE, locations |-> {}]

LegalLocationTables ==
    LET everywhere == [defined |-> TRUE, locations |-> DrawCardLocations]
        noDiscard == [defined |-> TRUE, locations |-> DrawCardLocations \ {"discard"}]
        arenas == [defined |-> TRUE, locations |-> {"spaceArena", "groundArena"}]
        tokens == {"tokenUnit", "tokenUpgrade"}
        types == {"nonLeaderUnit", "upgrade"} \cup tokens
    IN {[t \in types |-> everywhere],
        [t \in types |-> noDiscard],
        [t \in types |-> IF t \in tokens THEN arenas ELSE everywhere],
        [t \in types |-> IF t \in tokens THEN NoLegalLocations ELSE everywhere]}

\* Player.isLegalLocationForCardType, for a location that is no additional pile
isLegalLocationForCardType(cardType, location) ==
    LET legalLocationsForType == lLegalLocations[cardType]
    IN /\ legalLocationsForType.defined
       /\ cardLocationMatches(location, legalLocationsForType.locations)

\* card.upgrades: the upgrades attached to the card
UpgradesOf(cards, card) == SelectSeq(UpgradeCards, LAMBDA u : cards[u].parent = card)

\* Player.removeCardFromPile: the pile of the card's location loses the card,
\* for the locations the switch names.
removeCardFromPile(cards, card) ==
    IF cards[card].location \in {"spaceArena", "groundArena", "hand", "deck", "discard",
                                 "removedFromGame", "leader"}
       THEN [cards EXCEPT ![card].pile = "none"]
       ELSE cards

\* The end of Player.moveCard: the card is put on the target pile and
\* card.moveTo(targetLocation) sets its location; out of play it is attached
\* to nothing.
PlaceCard(cards, card, targetLocation) ==
    [cards EXCEPT ![card].pile = targetLocation,
                  ![card].location = targetLocation,
                  ![card].parent = IF isArena(targetLocation) THEN @ ELSE "none"]

\* Player.moveCard, called on the card's owner; Contract.fail ends the call.
\* A unit that leaves an arena takes the upgrades still attached to it to the
\* discard pile, one moveCard each.
RECURSIVE moveCard(_, _, _)
RECURSIVE MoveUpgradesToDiscard(_, _)
moveCard(cards, card, targetLocation) ==
    LET removed == removeCardFromPile(cards, card)
    IN IF \/ ~isLegalLocationForCardType(removed[card].type, targetLocation)
          \/ removed[card].pile = targetLocation
          THEN [cards |-> removed, failed |-> TRUE]
          ELSE IF isArena(removed[card].location) /\ isUnit(removed[card].type)
                  THEN LET moved == MoveUpgradesToDiscard(removed, UpgradesOf(removed, card))
                       IN IF moved.failed
                             THEN moved
                             ELSE [cards |-> PlaceCard(moved.cards, card, targetLocation),
                                   failed |-> FALSE]
                  ELSE [cards |-> PlaceCard(removed, card, targetLocation), failed |-> FALSE]

MoveUpgradesToDiscard(cards, upgrades) ==
    IF upgrades = <<>>
       THEN [cards |-> cards, failed |-> FALSE]
       ELSE LET moved == moveCard(cards, Head(upgrades), "discard")
            IN IF moved.failed THEN moved
                               ELSE MoveUpgradesToDiscard(moved.cards, Tail(upgrades))

\* The message leavesPlayEventHandler logs when it redirects an event
IllegalLocationMessage(event) ==
    [text |-> "{0} is not a legal location for {1} and it is discarded",
     destination |-> event.destination, card |-> event.card]

\* CardTargetSystem.leavesPlayEventHandler: the destination the card is moved to
LeavesPlayDestination(event) ==
    IF ~isLegalLocationForCardType(lCards[event.card].type, event.destination)
       THEN "deck"
       ELSE event.destination

\* CardTargetSystem.leavesPlayEventHandler
leavesPlayEventHandler(event) ==
    LET moved == moveCard(lCards, event.card, LeavesPlayDestination(event))
    IN /\ lMessages' = IF ~isLegalLocationForCardType(lCards[event.card].type,
                                                     event.destination)
                          THEN Append(lMessages, IllegalLocationMessage(event))
                          ELSE lMessages
       /\ lCards' = moved.cards
       /\ lFailed' = moved.failed

\* The order key a new event has
DefaultOrder == 0

\* attachmentEvent.order = event.order - 1
ContingentOrder_Same(order) == order
ContingentOrder_After(order) == order + 1
ContingentOrder(order) == order - 1

\* addLeavesPlayPropertiesToEvent on a new event of the system for the card:
\* event.destination = properties.destination || Location.Discard
LeavesPlayEvent(card, destination) ==
    [card |-> card, order |-> DefaultOrder, destination |-> destination,
     isContingent |-> FALSE, primary |-> 0,
     cancelled |-> FALSE, reacted |-> FALSE, resolved |-> FALSE,
     upgrades |-> UpgradesOf(lCards, card), previousCondition |-> <<>>]

\* The attachmentEvent event.createContingentEvents makes for one upgrade: a
\* defeat event, which sends the upgrade to the discard pile
AttachmentEvent(upgrade, event, primary) ==
    [card |-> upgrade, order |-> ContingentOrder(event.order), destination |-> "discard",
     isContingent |-> TRUE, primary |-> primary,
     cancelled |-> FALSE, reacted |-> FALSE, resolved |-> FALSE,
     upgrades |-> <<>>, previousCondition |-> <<>>]

\* for (const upgrade of event.card.upgrades) if (isArena(upgrade.location)) ...
GetsContingentEvent(upgrade) == isArena(lCards[upgrade].location)

\* event.createContingentEvents(), for the event at position primary of the window
RECURSIVE ContingentEventsFor(_, _, _)
ContingentEventsFor(upgrades, event, primary) ==
    IF upgrades = <<>> THEN <<>>
    ELSE (IF GetsContingentEvent(Head(upgrades))
             THEN <<AttachmentEvent(Head(upgrades), event, primary)>> ELSE <<>>)
         \o ContingentEventsFor(Tail(upgrades), event, primary)

createContingentEvents(primary) ==
    ContingentEventsFor(UpgradesOf(lCards, lEvents[primary].card), lEvents[primary], primary)

\* The condition of an event: for the attachmentEvent the defeat system's own
\* condition (previousCondition) and upgrade.parentCard === event.card.
LeavesPlayCondition_OwnOnly(event, previousCondition) ==
    event.isContingent => previousCondition
LeavesPlayCondition(event, previousCondition) ==
    event.isContingent =>
        /\ previousCondition
        /\ lCards[event.card].parent = lEvents[event.primary].card

\* The system generates its events for the targets and opens a window on them.
generateLeavesPlayEvents ==
    /\ lPhase = "generate"
    /\ \E n \in DOMAIN UnitCards, destination \in {"discard", "hand"} :
          lEvents' = [i \in 1..n |-> LeavesPlayEvent(UnitCards[i], destination)]
    /\ lPhase' = "interrupt"
    /\ UNCHANGED <<lCards, lLegalLocations, lApplied, lMessages, lFailed>>
    /\ UNCHANGED notLeavesPlayVars

\* A reactive ability cancels an event of the window before the events apply.
cancelLeavesPlayEvent ==
    /\ lPhase = "interrupt"
    /\ \E i \in DOMAIN lEvents :
          /\ ~lEvents[i].cancelled
          /\ lEvents' = [lEvents EXCEPT ![i].cancelled = TRUE, ![i].reacted = TRUE]
    /\ UNCHANGED <<lCards, lLegalLocations, lPhase, lApplied, lMessages, lFailed>>
    /\ UNCHANGED notLeavesPlayVars

\* An event is confirmed to resolve when no reaction has cancelled it.
ConfirmedToResolve_Always(event) == TRUE
ConfirmedToResolve(event) == ~event.cancelled

\* The contingent events of the events at positions i.. of the window
RECURSIVE ContingentEventsFrom(_)
ContingentEventsFrom(i) ==
    IF i > Len(lEvents) THEN <<>>
    ELSE (IF ConfirmedToResolve(lEvents[i]) THEN createContingentEvents(i) ELSE <<>>)
         \o ContingentEventsFrom(i + 1)

\* The window closes to reactions: the contingent events of the events that
\* are confirmed to resolve are created and added to the window.
addContingentEvents ==
    /\ lPhase = "interrupt"
    /\ lEvents' = lEvents \o ContingentEventsFrom(1)
    /\ lPhase' = "apply"
    /\ UNCHANGED <<lCards, lLegalLocations, lApplied, lMessages, lFailed>>
    /\ UNCHANGED notLeavesPlayVars

\* The events of the window still to be applied
ToApply == {i \in DOMAIN lEvents : ~lEvents[i].cancelled /\ ~lEvents[i].resolved}

\* The window applies its events by ascending order key, events of one key in
\* the order they were added.
NextToApply ==
    CHOOSE i \in ToApply :
        \A j \in ToApply :
            \/ lEvents[i].order < lEvents[j].order
            \/ lEvents[i].order = lEvents[j].order /\ i <= j

\* What the defeat system's own condition may answer for an attachmentEvent
\* when the window checks it
PreviousConditions(event) == IF event.isContingent THEN BOOLEAN ELSE {TRUE}

\* The window applies its next event: the condition is checked, and the handler
\* runs if it holds; a Contract.fail in the handler aborts the pipeline.
applyLeavesPlayEvent ==
    /\ lPhase = "apply"
    /\ ToApply # {}
    /\ \E previousCondition \in PreviousConditions(lEvents[NextToApply]) :
          LET i == NextToApply
              checked == IF lEvents[i].isContingent THEN <<previousCondition>> ELSE <<>>
          IN IF LeavesPlayCondition(lEvents[i], previousCondition)
                THEN /\ leavesPlayEventHandler(lEvents[i])
                     /\ lEvents' = [lEvents EXCEPT ![i].resolved = TRUE,
                                                   ![i].previousCondition = checked]
                     /\ lApplied' = Append(lApplied, i)
                     /\ lPhase' = IF lFailed' THEN "aborted" ELSE lPhase
                ELSE /\ lEvents' = [lEvents EXCEPT ![i].cancelled = TRUE,
                                                   ![i].previousCondition = checked]
                     /\ UNCHANGED <<lCards, lApplied, lMessages, lFailed, lPhase>>
    /\ UNCHANGED lLegalLocations
    /\ UNCHANGED notLeavesPlayVars

\* Two units in play and up to two upgrades attached to the first of them.
InitLeavesPlay ==
    /\ ResolverIdle
    /\ GsIdle
    /\ PIdle
    /\ CIdle
    /\ UIdle
    /\ MoreIdle
    /\ \E unitType \in {"nonLeaderUnit", "tokenUnit"},
          upgradeType \in {"upgrade", "tokenUpgrade"},
          attached \in {{}, {"upg1"}, {"upg1", "upg2"}} :
          lCards = [c \in LeavesPlayCards |->
                      CASE c = "unit1" -> [type |-> unitType, location |-> "groundArena",
                                           pile |-> "groundArena", parent |-> "none"]
                        [] c = "unit2" -> [type |-> "nonLeaderUnit", location |-> "spaceArena",
                                           pile |-> "spaceArena", parent |-> "none"]
                        [] c \in attached -> [type |-> upgradeType, location |-> "groundArena",
                                              pile |-> "groundArena", parent |-> "unit1"]
                        [] OTHER -> [type |-> upgradeType, location |-> "hand",
                                     pile |-> "hand", parent |-> "none"]]
    /\ lLegalLocations \in LegalLocationTables
    /\ lEvents = <<>>
    /\ lPhase = "generate"
    /\ lApplied = <<>>
    /\ lMessages = <<>>
    /\ lFailed = FALSE

NextLeavesPlay ==
    \/ generateLeavesPlayEvents
    \/ cancelLeavesPlayEvent
    \/ addContingentEvents
    \/ applyLeavesPlayEvent

SpecLeavesPlay == InitLeavesPlay /\ [][NextLeavesPlay]_vars

\* An effect that applies while the window is applying its events detaches an
\* upgrade that is in an arena, or attaches it to another unit in an arena.
attachUpgradeElsewhere ==
    /\ lPhase = "apply"
    /\ ToApply # {}
    /\ \E i \in DOMAIN UpgradeCards, parent \in {"none", "unit1", "unit2"} :
          LET upgrade == UpgradeCards[i]
          IN /\ isArena(lCards[upgrade].location)
             /\ parent # lCards[upgrade].parent
             /\ parent # "none" => isArena(lCards[parent].location)
             /\ lCards' = [lCards EXCEPT ![upgrade].parent = parent]
    /\ UNCHANGED <<lLegalLocations, lEvents, lPhase, lApplied, lMessages, lFailed>>
    /\ UNCHANGED notLeavesPlayVars

\* Two units in play and two upgrades in the first unit's card.upgrades: the
\* first in the arena, the second in the arena or out of play.
InitContingent ==
    /\ ResolverIdle
    /\ GsIdle
    /\ PIdle
    /\ CIdle
    /\ UIdle
    /\ MoreIdle
    /\ \E location \in {"groundArena", "hand"} :
          lCards = [c \in LeavesPlayCards |->
                      CASE c = "unit1" -> [type |-> "nonLeaderUnit", location |-> "groundArena",
                                           pile |-> "groundArena", parent |-> "none"]
                        [] c = "unit2" -> [type |-> "nonLeaderUnit", location |-> "spaceArena",
                                           pile |-> "spaceArena", parent |-> "none"]
                        [] c = "upg1" -> [type |-> "upgrade", location |-> "groundArena",
                                          pile |-> "groundArena", parent |-> "unit1"]
                        [] OTHER -> [type |-> "upgrade", location |-> location,
                                     pile |-> location, parent |-> "unit1"]]
    /\ lLegalLocations \in LegalLocationTables
    /\ lEvents = <<>>
    /\ lPhase = "generate"
    /\ lApplied = <<>>
    /\ lMessages = <<>>
    /\ lFailed = FALSE

NextContingent ==
    \/ generateLeavesPlayEvents
    \/ cancelLeavesPlayEvent
    \/ addContingentEvents
    \/ applyLeavesPlayEvent
    \/ attachUpgradeElsewhere

SpecContingent == InitContingent /\ [][NextContingent]_vars

(***************************************************************************)
(* Player.moveCard, Player.removeCardFromPile and Player.resourceCard on   *)
(* the piles of two players                                                *)
(***************************************************************************)

notZoneVars == <<resolverVars, gsVars, pVars, cVars, uVars, mVars, tVars, lCards, lEvents, lPhase,
                 lApplied, lMessages, lFailed>>

\* Most calls of moveCard and resourceCard followed from one initial state.
MaxMoves == 3

Players == {"p1", "p2"}

\* The cards: a unit owned by one player and an upgrade owned by the other
ZoneCards == <<"unit1", "upg1">>

ZoneCardSet == {ZoneCards[i] : i \in DOMAIN ZoneCards}

\* The locations whose piles the cards move between
PileLocations == {"hand", "deck", "discard", "resource", "groundArena"}

\* The targetLocation arguments: a location, or the deck with ' bottom'
TargetLocations == PileLocations \cup {"deck bottom"}

\* The locations whose pile the switch of removeCardFromPile assigns
AssignedLocations ==
    {"spaceArena", "groundArena", "hand", "deck", "discard", "removedFromGame", "leader"}

\* Player.removeCardByUuid
removeCardByUuid(list, card) == SelectSeq(list, LAMBDA c : c # card)

\* targetPile.includes(card)
Includes(list, card) == \E i \in DOMAIN list : list[i] = card

\* Player.removeCardFromPile on the state st: the call ends up on the card's
\* controller, where the pile of the card's location is filtered and, for the
\* locations of the switch, assigned.
RemoveCardFromPileIn(st, card) ==
    LET controller == st.cards[card].controller
        originalLocation == st.cards[card].location
    IN IF originalLocation \in AssignedLocations
          THEN [st EXCEPT !.piles[controller][originalLocation] = removeCardByUuid(@, card)]
          ELSE st

\* card.upgrades
AttachedTo(st, card) == SelectSeq(ZoneCards, LAMBDA u : st.cards[u].parent = card)

\* The end of Player.moveCard: card.controller is set, the card is put on
\* targetPile (the array read before the upgrades were moved: when their removal
\* has assigned a new array to that pile, the push goes to the old one), and
\* card.moveTo(targetLocation) sets the location.
PlaceCardIn(st, player, card, targetLocation, bottom, controller, stale) ==
    LET targetPile == st.piles[player][targetLocation]
        pushed == IF targetLocation = "deck" /\ ~bottom THEN <<card>> \o targetPile
                  ELSE IF targetLocation \in {"discard", "removedFromGame"}
                          THEN <<card>> \o targetPile
                  ELSE Append(targetPile, card)
    IN [st EXCEPT !.piles[player][targetLocation] = IF stale THEN @ ELSE pushed,
                  !.cards[card].controller = controller,
                  !.cards[card].location = targetLocation,
                  !.cards[card].parent = IF isArena(targetLocation) THEN @ ELSE "none"]

\* Player.moveCard(card, targetLocation, options) called on `player`, on the
\* state st; Contract.fail ends the call.
RECURSIVE MoveCardIn(_, _, _, _, _)
RECURSIVE MoveUpgradesIn(_, _)
MoveCardIn(st, player, card, targetLocation, bottom) ==
    LET removed == RemoveCardFromPileIn(st, card)
        c == removed.cards[card]
        currentLocation == c.location
    IN IF \/ ~isLegalLocationForCardType(c.type, targetLocation)
          \/ Includes(removed.piles[player][targetLocation], card)
          THEN [removed EXCEPT !.failed = TRUE]
       ELSE IF isArena(currentLocation) /\ c.owner # player
          THEN MoveCardIn(removed, c.owner, card, targetLocation, bottom)
       ELSE IF isArena(currentLocation)
          THEN LET upgrades == IF isUnit(c.type) THEN AttachedTo(removed, card) ELSE <<>>
                   moved == MoveUpgradesIn(removed, upgrades)
                   stale == \E i \in DOMAIN upgrades :
                               /\ removed.cards[upgrades[i]].controller = player
                               /\ removed.cards[upgrades[i]].location = targetLocation
               IN IF moved.failed
                     THEN moved
                     ELSE PlaceCardIn(moved, player, card, targetLocation, bottom, player,
                                      stale)
       ELSE PlaceCardIn(removed, player, card, targetLocation, bottom,
                        IF isArena(targetLocation) THEN player ELSE c.owner, FALSE)

\* for (const upgrade of card.upgrades) upgrade.owner.moveCard(upgrade, Location.Discard)
MoveUpgradesIn(st, upgrades) ==
    IF upgrades = <<>>
       THEN st
       ELSE LET upgrade == Head(upgrades)
                moved == MoveCardIn(st, st.cards[upgrade].owner, upgrade, "discard", FALSE)
            IN IF moved.failed THEN moved ELSE MoveUpgradesIn(moved, Tail(upgrades))

\* The cards and piles as a call finds them
ZoneState == [cards |-> zCards, piles |-> zPiles, failed |-> FALSE]

\* Player.countSpendableResources
countSpendableResources(player) ==
    Len(SelectSeq(zPiles[player]["resource"], LAMBDA c : ~zCards[c].exhausted))

\* Player.moveCard
Player_moveCard ==
    \E player \in Players, card \in ZoneCardSet, target \in TargetLocations :
        LET bottom == target = "deck bottom"
            targetLocation == IF bottom THEN "deck" ELSE target
            after == MoveCardIn(ZoneState, player, card, targetLocation, bottom)
        IN /\ zCount < MaxMoves
           /\ zCount' = zCount + 1
           /\ zCards' = after.cards
           /\ zPiles' = after.piles
           /\ zFailed' = after.failed
           /\ zFailures' = IF after.failed THEN zFailures + 1 ELSE zFailures
           /\ zCall' = <<[method |-> "moveCard", player |-> player, card |-> card,
                          targetLocation |-> targetLocation, exhaust |-> FALSE]>>
           /\ UNCHANGED lLegalLocations
           /\ UNCHANGED notZoneVars

\* Player.resourceCard
Player_resourceCard ==
    \E player \in Players, card \in ZoneCardSet, exhaust \in BOOLEAN :
        LET after == MoveCardIn(ZoneState, player, card, "resource", FALSE)
        IN /\ zCount < MaxMoves
           /\ zCount' = zCount + 1
           /\ zCards' = [after.cards EXCEPT ![card].exhausted = ~exhaust]
           /\ zPiles' = after.piles
           /\ zFailed' = after.failed
           /\ zFailures' = IF after.failed THEN zFailures + 1 ELSE zFailures
           /\ zCall' = <<[method |-> "resourceCard", player |-> player, card |-> card,
                          targetLocation |-> "resource", exhaust |-> exhaust]>>
           /\ UNCHANGED lLegalLocations
           /\ UNCHANGED notZoneVars

\* The tables of legal locations that differ for the types of these cards
ZoneLegalLocationTables ==
    {t \in LegalLocationTables : t["tokenUnit"] = t["nonLeaderUnit"]}

EmptyPiles == [player \in Players |-> [location \in PileLocations |-> <<>>]]

\* Either each card is in its owner's deck, or the unit is in its owner's ground
\* arena with the other player's upgrade attached to it.
InitZone ==
    /\ ResolverIdle
    /\ GsIdle
    /\ PIdle
    /\ CIdle
    /\ UIdle
    /\ MIdle
    /\ TIdle
    /\ lCards = <<>>
    /\ lEvents = <<>>
    /\ lPhase = "idle"
    /\ lApplied = <<>>
    /\ lMessages = <<>>
    /\ lFailed = FALSE
    /\ lLegalLocations \in ZoneLegalLocationTables
    /\ \E location \in {"deck", "groundArena"} :
          /\ zCards =
                [card \in ZoneCardSet |->
                    IF card = "unit1"
                       THEN [type |-> "nonLeaderUnit", owner |-> "p1", controller |-> "p1",
                             location |-> location, exhausted |-> FALSE, parent |-> "none"]
                       ELSE [type |-> "upgrade", owner |-> "p2", controller |-> "p2",
                             location |-> location, exhausted |-> FALSE,
                             parent |-> IF location = "deck" THEN "none" ELSE "unit1"]]
          /\ zPiles = [EmptyPiles EXCEPT !["p1"][location] = <<"unit1">>,
                                         !["p2"][location] = <<"upg1">>]
    /\ zCall = <<>>
    /\ zFailed = FALSE
    /\ zCount = 0
    /\ zFailures = 0

NextZone ==
    \/ Player_moveCard
    \/ Player_resourceCard

SpecZone == InitZone /\ [][NextZone]_vars

(***************************************************************************)
(* 'Unless' additional costs: GameSystem.resolve with                      *)
(* CardTargetSystem.generateEventsForAllTargets                            *)
(***************************************************************************)

\* Most additional costs one card has for the system.
MaxAdditionalCosts == 2

TargetCards == {"cardA", "cardB", "cardC"}

\* The lists of additional costs a card can have
AdditionalCostLists ==
    UNION {[1..n -> BOOLEAN] : n \in 0..MaxAdditionalCosts}

\* The allCostsPaid a step of the card reads and writes: the loop body declares
\* it, so each target has its own.
AllCostsPaidOf_Shared(card) == uTargets[1]
AllCostsPaidOf(card) == card

\* The steps one iteration of the loop queues for a card with additional costs
CostSteps(card) ==
    [i \in DOMAIN uCosts[card] |-> [label |-> "resolve card targeting costs",
                                   card |-> card, cost |-> i]]
    \o <<[label |-> "push card target event if targeting cost paid",
          card |-> card, cost |-> 0]>>

\* The loop of CardTargetSystem.generateEventsForAllTargets over the targets:
\* the events pushed at once and the steps queued, in order
RECURSIVE TargetLoop(_)
TargetLoop(targets) ==
    IF targets = <<>>
       THEN [events |-> <<>>, steps |-> <<>>]
       ELSE LET card == Head(targets)
                rest == TargetLoop(Tail(targets))
            IN IF uCosts[card] # <<>>
                  THEN [rest EXCEPT !.steps = CostSteps(card) \o @]
                  ELSE [rest EXCEPT !.events = <<[card |-> card]>> \o @]

\* GameSystem.resolve: generateEventsForAllTargets, then the step that opens
\* the event window on the events array is queued.
resolveSystem_WindowFirst ==
    /\ uPipeline = <<>>
    /\ uWindow = <<>>
    /\ uEvents = <<>>
    /\ uMessages = <<>>
    /\ uEvents' = TargetLoop(uTargets).events
    /\ uPipeline' = QueueSteps(<<>>, <<[label |-> "openEventWindow", card |-> "none",
                                        cost |-> 0]>>
                                     \o TargetLoop(uTargets).steps)
    /\ UNCHANGED <<uTargets, uCosts, uAllCostsPaid, uWindow, uMessages>>
    /\ UNCHANGED notUnlessVars
resolveSystem ==
    /\ uPipeline = <<>>
    /\ uWindow = <<>>
    /\ uEvents = <<>>
    /\ uMessages = <<>>
    /\ uEvents' = TargetLoop(uTargets).events
    /\ uPipeline' = QueueSteps(<<>>, TargetLoop(uTargets).steps
                                     \o <<[label |-> "openEventWindow", card |-> "none",
                                           cost |-> 0]>>)
    /\ UNCHANGED <<uTargets, uCosts, uAllCostsPaid, uWindow, uMessages>>
    /\ UNCHANGED notUnlessVars

\* The step 'resolve card targeting costs'
resolveCardTargetingCost ==
    /\ uPipeline # <<>>
    /\ Head(uPipeline).label = "resolve card targeting costs"
    /\ LET step == Head(uPipeline)
       IN IF uCosts[step.card][step.cost]
             THEN /\ uMessages' = Append(uMessages, [text |-> "{0} {1} in order to {2}",
                                                     card |-> step.card])
                  /\ UNCHANGED uAllCostsPaid
             ELSE /\ uAllCostsPaid' = [uAllCostsPaid EXCEPT ![AllCostsPaidOf(step.card)] = FALSE]
                  /\ uMessages' = Append(uMessages,
                        [text |-> "{0} cannot pay the additional cost required to {1}",
                         card |-> step.card])
    /\ uPipeline' = Tail(uPipeline)
    /\ UNCHANGED <<uTargets, uCosts, uEvents, uWindow>>
    /\ UNCHANGED notUnlessVars

\* The step 'push card target event if targeting cost paid'
pushCardTargetEvent ==
    /\ uPipeline # <<>>
    /\ Head(uPipeline).label = "push card target event if targeting cost paid"
    /\ uEvents' = IF uAllCostsPaid[AllCostsPaidOf(Head(uPipeline).card)]
                     THEN Append(uEvents, [card |-> Head(uPipeline).card])
                     ELSE uEvents
    /\ uPipeline' = Tail(uPipeline)
    /\ UNCHANGED <<uTargets, uCosts, uAllCostsPaid, uWindow, uMessages>>
    /\ UNCHANGED notUnlessVars

\* The step that calls game.openEventWindow(events)
openEventWindowStep ==
    /\ uPipeline # <<>>
    /\ Head(uPipeline).label = "openEventWindow"
    /\ uWindow' = <<uEvents>>
    /\ uPipeline' = Tail(uPipeline)
    /\ UNCHANGED <<uTargets, uCosts, uAllCostsPaid, uEvents, uMessages>>
    /\ UNCHANGED notUnlessVars

\* The orders the three cards can be targeted in
TargetOrders ==
    {q \in [1..3 -> TargetCards] : \A i, j \in 1..3 : i # j => q[i] # q[j]}

\* A system about to be resolved on three target cards.
InitUnless ==
    /\ ResolverIdle
    /\ GsIdle
    /\ PIdle
    /\ CIdle
    /\ LIdle
    /\ MoreIdle
    /\ uTargets \in TargetOrders
    /\ uCosts \in [TargetCards -> AdditionalCostLists]
    /\ uAllCostsPaid = [c \in TargetCards |-> TRUE]
    /\ uEvents = <<>>
    /\ uPipeline = <<>>
    /\ uWindow = <<>>
    /\ uMessages = <<>>

NextUnless ==
    \/ resolveSystem
    \/ resolveCardTargetingCost
    \/ pushCardTargetEvent
    \/ openEventWindowStep

SpecUnless == InitUnless /\ [][NextUnless]_vars

(***************************************************************************)
(* Observations on a resolution                                            *)
(***************************************************************************)

\* The step `label` has run.
Ran(label) == \E i \in DOMAIN trace : trace[i] = label

\* How many times the step `label` has run.
TimesRun(label) == Cardinality({i \in DOMAIN trace : trace[i] = label})

\* How many times the message m was emitted.
TimesEmitted(m) == Cardinality({i \in DOMAIN messages : messages[i] = m})

\* The resolution is over: the pipeline has emptied.
Terminated == pipeline = <<>>

\* The initiation event was resolved by the initiation window (its handler ran).
InitiationEventResolved ==
    \E i \in DOMAIN events : IsInitiationEvent(events[i]) /\ events[i].resolved

\* A reacting ability cancelled the initiation event in the initiation window.
InitiationEventPrevented ==
    \E i \in DOMAIN events :
        IsInitiationEvent(events[i]) /\ events[i].cancelled /\ ~events[i].resolved

\* One of the stages of queueInitiateAbilitySteps has run: checkForCancelOrPass
\* counts from its second run, the first one is the step of initialise.
PostWindowStageRan ==
    \/ \E l \in {"resolveCosts", "payCosts", "checkCostsWerePaid", "resolveTargets",
                 "initiateAbilityEffects", "executeHandler"} : Ran(l)
    \/ TimesRun("checkForCancelOrPass") >= 2

\* A cost was resolved or paid.
CostResolvedOrPaid ==
    \/ Ran("resolveCosts") \/ Ran("payCosts") \/ Ran("costEventWindow")
    \/ stage = "Cost"
    \/ costResults # GetCostResults

(***************************************************************************)
(* Claims on the events of a game system                                   *)
(***************************************************************************)

\* The window has settled event e: it ran its handler or cancelled it.
Settled(e) == e.cancelled \/ e.resolved

\* C2: an event a card-target system generated for a card canAffect accepted at
\* creation, and rejects when the window applies the event, does not run its
\* handler: the window cancels it.
C2_RevalidationAtApply ==
    gsSystem.class = "CardTargetSystem" =>
        \A i \in DOMAIN gsEvents :
            (gsEvents[i].legalAtCreation /\ Settled(gsEvents[i]) /\ ~gsEvents[i].legalAtApply)
                => (gsEvents[i].cancelled /\ ~gsEvents[i].resolved)

\* C2 witness: the window has cancelled an event of a card-target system whose
\* card was a legal target at creation and no longer was at application.
C2_Witness ==
    /\ gsSystem.class = "CardTargetSystem"
    /\ \E i \in DOMAIN gsEvents :
          /\ gsEvents[i].legalAtCreation /\ ~gsEvents[i].legalAtApply
          /\ gsEvents[i].cancelled /\ ~gsEvents[i].resolved

\* C3 as stated: whatever the class of the system, an event whose target
\* canAffect rejects when the window applies it does not run its handler.
C3_EveryConditionRevalidates ==
    \A i \in DOMAIN gsEvents :
        (Settled(gsEvents[i]) /\ ~gsEvents[i].legalAtApply) => ~gsEvents[i].resolved

(***************************************************************************)
(* Claims on the pipeline                                                  *)
(***************************************************************************)

\* The position of step s in the order of execution, 0 while it has not run
RunPosition(s) ==
    IF \E k \in DOMAIN pLog : pLog[k].step = s
       THEN CHOOSE k \in DOMAIN pLog : pLog[k].step = s
       ELSE 0

\* Step a did not run after step b: if b has run, a ran before it.
RanBefore(a, b) ==
    RunPosition(b) # 0 => (RunPosition(a) # 0 /\ RunPosition(a) < RunPosition(b))

\* The steps of the sequence q that have run did so in the order of q.
RanInOrder(q) == \A i, j \in DOMAIN q : i < j => RanBefore(q[i], q[j])

Range(q) == {q[i] : i \in DOMAIN q}

\* C4: for every step that has run, each step it queued at the front ran before
\* each step it queued at the back and before each step that was waiting behind
\* it; steps run one at a time, each once, and the steps queued together, like
\* the steps waiting in the queue, run in their queue order.
C4_FrontBeforeBackAndBehind ==
    /\ \A k \in DOMAIN pLog :
          /\ \A f \in Range(pLog[k].front) :
                \A x \in Range(pLog[k].back) \cup Range(pLog[k].behind) : RanBefore(f, x)
          /\ \A f \in Range(pLog[k].front) : RunPosition(f) # 0 => RunPosition(f) > k
          /\ RanInOrder(pLog[k].front)
          /\ RanInOrder(pLog[k].behind)
          /\ RanInOrder(pLog[k].back)
    /\ \A k, l \in DOMAIN pLog : pLog[k].step = pLog[l].step => k = l
    /\ \A i \in DOMAIN pQueue : RunPosition(pQueue[i]) = 0

\* C4 witness: the pipeline has emptied after a step that had a step waiting
\* behind it queued steps both at the front and at the back.
C4_Witness ==
    /\ pQueue = <<>>
    /\ \E k \in DOMAIN pLog :
          pLog[k].front # <<>> /\ pLog[k].back # <<>> /\ pLog[k].behind # <<>>

(***************************************************************************)
(* Claims on the ability resolver                                          *)
(***************************************************************************)

\* C1 as stated: once the resolver is cancelled the effect handler is never
\* invoked, and when the resolution is over every event of this.events is
\* cancelled and was not applied.
C1_Original ==
    cancelled =>
        /\ handlerCalls = 0
        /\ Terminated =>
              \A i \in DOMAIN events : events[i].cancelled /\ ~events[i].resolved

\* C1 as amended: once the resolver is cancelled the effect handler is never
\* invoked, and when the resolution is over every event of this.events has its
\* cancelled flag set; if there are such events the initiation event is one of
\* them and it had already been resolved by the initiation window (its handler
\* queued the stages that found the cancellation), which cancelling does not undo.
C1_CancelledNeverExecutes ==
    cancelled =>
        /\ handlerCalls = 0
        /\ Terminated =>
              /\ \A i \in DOMAIN events : events[i].cancelled
              /\ events # <<>> => InitiationEventResolved

\* C1 witness: a resolution cancelled after its initiation window has ended with
\* all its events cancelled and no handler call.
C1_Witness ==
    /\ cancelled /\ Terminated /\ Len(events) >= 2
    /\ Ran("initiateAbilityEffects")
    /\ \A i \in DOMAIN events : events[i].cancelled

C6_EarlyCancelSkipsToEnd ==
    (earlyCancelled /\ Ran("openInitiateAbilityEventWindow")) =>
        /\ cancelled
        /\ events = <<>>
        /\ ~Ran("initiateAbilityEventWindow")
        /\ ~CostResolvedOrPaid

\* C7: once the player has answered Pass at the Trigger / Pass prompt the resolver
\* is cancelled, and no initiation window is opened, no cost is resolved or paid
\* and the effect handler does not run, up to the end of the resolution.
C7_PassSkipsToEnd ==
    passChosen =>
        /\ cancelled
        /\ events = <<>>
        /\ ~Ran("initiateAbilityEventWindow")
        /\ ~CostResolvedOrPaid
        /\ handlerCalls = 0
        /\ ~PostWindowStageRan

\* C7 witness: Pass was answered and the resolution has ended, the
\* openInitiateAbilityEventWindow step having run.
C7_Witness ==
    passChosen /\ Terminated /\ Ran("openInitiateAbilityEventWindow")

\* C8: a stage of queueInitiateAbilitySteps runs, or waits in the pipeline, only
\* once the initiation event has been resolved, so no cost is resolved or paid
\* before that; and if a reacting ability cancelled the initiation event no such
\* stage ever runs.
C8_StagesOnlyFromInitiationEvent ==
    /\ (PostWindowStageRan \/ CostResolvedOrPaid) => InitiationEventResolved
    /\ (\E i \in DOMAIN pipeline :
           pipeline[i] \in {"resolveCosts", "payCosts", "checkCostsWerePaid",
                            "resolveTargets", "initiateAbilityEffects", "executeHandler"})
          => InitiationEventResolved
    /\ InitiationEventPrevented => (~PostWindowStageRan /\ ~CostResolvedOrPaid)

\* C8 witness: a reacting ability cancelled the initiation event, and the
\* resolution ended there.
C8_Witness ==
    InitiationEventPrevented /\ Terminated /\ Ran("initiateAbilityEventWindow")

\* The window of the cost events cancelled one of them.
CostEventCancelled ==
    \E i \in DOMAIN costResults.events : costResults.events[i].cancelled

\* C9: after checkCostsWerePaid has run, if some cost event is cancelled the
\* resolver is cancelled for that reason, the 'did not pay' message was emitted
\* once, and targets are not resolved, no limit is incremented and the handler is
\* not called; if no cost event is cancelled the message was not emitted and the
\* resolver is not cancelled on account of the costs' events.
C9_UnpaidCostCancels ==
    Ran("checkCostsWerePaid") =>
        IF CostEventCancelled
           THEN /\ cancelled /\ cancelCause = "costEvent"
                /\ TimesEmitted(DidNotPayMessage) = 1
                /\ stage = "Cost"
                /\ limitIncrements = 0
                /\ handlerCalls = 0
           ELSE /\ TimesEmitted(DidNotPayMessage) = 0
                /\ cancelCause # "costEvent"
                /\ (~Ran("resolveTargets") /\ cancelled) => cancelCause = "costResolution"

\* C9 witness: one of two cost events was cancelled in the costs' window and the
\* resolution has ended.
C9_Witness ==
    /\ Terminated /\ Ran("checkCostsWerePaid")
    /\ Len(costResults.events) = 2
    /\ costResults.events[1].resolved /\ costResults.events[2].cancelled

\* C10 as stated: a resolution that ended cancelled because cost resolution
\* reported cancelled, a cost event was cancelled or there were no legal targets
\* has emitted exactly one message, attributed to context.player; and no
\* resolution emits more than one message.
C10_OneMessagePerCancellation ==
    /\ Len(messages) <= 1
    /\ (Terminated /\ cancelCause \in {"costResolution", "costEvent", "noLegalTargets"}) =>
          (Len(messages) = 1 /\ messages[1].player = "context.player")

(***************************************************************************)
(* Claims on cost adjustment                                               *)
(***************************************************************************)


\* The penalty aspects of the play at hand
PenaltyAspectsOfPlay == getPenaltyAspects(cCard.aspects)

\* The adjuster passes getAdjustedCost runs for the play at hand: one on the
\* penalty unit of each penalty aspect, one on the penalized cost.
AdjusterPasses ==
    {[baseCost |-> PenaltyUnit, penaltyAspect |-> PenaltyAspectsOfPlay[i]] :
        i \in DOMAIN PenaltyAspectsOfPlay}
    \cup {[baseCost |-> PenalizedCost(cCard.cost, AspectPenaltiesTotal(PenaltyAspectsOfPlay)),
           penaltyAspect |-> NoPenaltyAspect]}

\* C16: getAdjustedCost is idempotent and free of side effects: as long as the
\* player's state is not changed by something else, every call returns what the
\* first call returned, and the adjuster registry, the adjusters in it and the
\* aspects of the player's leader and base are what they were before that call.
C16_AdjustedCostIdempotent ==
    cCalls > 0 =>
        /\ cAdjustedCost = cFirstCost
        /\ cBefore = <<PlayerCostState>>

\* getAdjustedCost was called twice in a row with an adjuster registered, for a
\* play whose penalty loop splices an aspect out of its copy of the player's.
C16_Witness ==
    /\ cCalls = 2
    /\ costAdjusters # <<>>
    /\ cCard.aspects # "null"
    /\ PenaltyAspectsOfPlay # <<>>
    /\ PenaltyLoop(cCard.aspects, getAspects).playerAspects # getAspects

\* C17: in every adjuster pass, with C the cost after the increases and before
\* the decreases, the cost returned is at least min(C, F) for the floor F of
\* each matching adjuster, whatever the matching decreases add up to.
C17_FloorProperty ==
    \A pass \in AdjusterPasses :
        LET matching == MatchingAdjusters(costAdjusters, pass.penaltyAspect)
            C == pass.baseCost + CostIncreases(matching)
        IN \A i \in DOMAIN matching :
              runAdjustersForCostType(pass.baseCost, pass.penaltyAspect)
                  >= Min(C, matching[i].costFloor)

\* getAdjustedCost ran its pass on the penalized cost with two matching
\* decreasing adjusters of different floors, and the floor held the cost above
\* what the decreases alone would have left.
C17_Witness ==
    /\ cCalls > 0
    /\ LET matching == MatchingAdjusters(costAdjusters, NoPenaltyAspect)
           C == PenalizedCost(cCard.cost, AspectPenaltiesTotal(PenaltyAspectsOfPlay))
       IN /\ Len(matching) = 2
          /\ \A i \in DOMAIN matching : matching[i].amount > 0
          /\ matching[1].costFloor # matching[2].costFloor
          /\ cAdjustedCost[1] > C - CostDecreases(matching)

\* The play of the scenario: a card of cost 2 with one penalty aspect and one
\* registered adjuster, decreasing by 1 with floor 0, that matches the play.
C18_Scenario ==
    /\ cCalls > 0
    /\ cCard.cost = 2
    /\ Len(PenaltyAspectsOfPlay) = 1
    /\ Len(costAdjusters) = 1
    /\ costAdjusters[1].amount = 1
    /\ costAdjusters[1].costFloor = 0
    /\ canAdjust(costAdjusters[1], NoPenaltyAspect)

\* C18 as stated: in the scenario getAdjustedCost returns 3.
C18_Original == C18_Scenario => cAdjustedCost = <<3>>

\* C18: in the scenario getAdjustedCost returns 3 when the adjuster matches the
\* pass on the penalized cost only, the decrease being applied once, to 2 + 2;
\* when the adjuster also matches the pass on the penalty aspect the decrease is
\* applied in both passes and getAdjustedCost returns 2.
C18_ScenarioCost ==
    C18_Scenario =>
        cAdjustedCost = IF canAdjust(costAdjusters[1], PenaltyAspectsOfPlay[1])
                           THEN <<2>> ELSE <<3>>

\* The scenario, with an adjuster that matches the pass on the penalized cost only
C18_Witness ==
    /\ C18_Scenario
    /\ ~canAdjust(costAdjusters[1], PenaltyAspectsOfPlay[1])
    /\ cAdjustedCost = <<3>>

\* C19: getAdjustedCost is the adjuster pass on the card's cost alone plus, for
\* each penalty aspect, the adjuster pass on that aspect's penalty unit.
C19_SumOfPasses ==
    cCalls > 0 =>
        cAdjustedCost[1] = runAdjustersForCostType(cCard.cost, NoPenaltyAspect)
                           + AspectPenaltiesTotal(PenaltyAspectsOfPlay)

\* C20: getAdjustedCost and getMinimumPossibleCost never return a cost below 0.
C20_NeverNegative ==
    /\ cCalls > 0 => cAdjustedCost[1] >= 0
    /\ cMinimumCost # <<>> => cMinimumCost[1] >= 0

(***************************************************************************)
(* Claims on leaves-play events                                            *)
(***************************************************************************)

\* The place of event i among the events whose handler ran; 0 if it did not run
AppliedAt(i) ==
    IF \E k \in DOMAIN lApplied : lApplied[k] = i
       THEN CHOOSE k \in DOMAIN lApplied : lApplied[k] = i
       ELSE 0

\* The contingent events the window holds for the event at position i
ContingentEventsOf(i) == {j \in DOMAIN lEvents : lEvents[j].isContingent /\ lEvents[j].primary = i}

\* The events the system generated for its targets
PrimaryEvents == {i \in DOMAIN lEvents : ~lEvents[i].isContingent}

\* The handler of event i called Contract.fail.
HandlerFailed(i) == lFailed /\ lApplied # <<>> /\ lApplied[Len(lApplied)] = i

\* The handler of event i ran with a destination that is not legal for the type
\* of the event's card.
RedirectedEvent(i) ==
    /\ lEvents[i].resolved
    /\ ~isLegalLocationForCardType(lCards[lEvents[i].card].type, lEvents[i].destination)

\* C11: a leaves-play event whose destination is not a legal location for the
\* type of its card never ends in the Contract.fail of moveCard: the handler
\* logs the message, and the card ends up in its owner's deck.
C11_RedirectEndsInDeck ==
    \A i \in DOMAIN lEvents :
        RedirectedEvent(i) =>
            /\ ~HandlerFailed(i)
            /\ \E k \in DOMAIN lMessages : lMessages[k] = IllegalLocationMessage(lEvents[i])
            /\ lCards[lEvents[i].card].location = "deck"
            /\ lCards[lEvents[i].card].pile = "deck"

\* The window holds the events of the defeat of one unit that had exactly one
\* upgrade, attached in an arena, and the contingent events were just added.
C13_Scenario ==
    /\ lPhase = "apply"
    /\ lApplied = <<>>
    /\ PrimaryEvents = {1}
    /\ ~lEvents[1].cancelled
    /\ Len(lEvents[1].upgrades) = 1
    /\ isArena(lCards[lEvents[1].upgrades[1]].location)

HasUnpayableCost(card) == \E i \in DOMAIN uCosts[card] : ~uCosts[card][i]

\* The cards the window was opened with an event for
WindowCards == {uWindow[1][i].card : i \in DOMAIN uWindow[1]}

\* C12: the outcome of one target's additional costs never touches another
\* target's event: when exactly one of the three targeted cards has an
\* additional cost that cannot be paid, the event window opens on exactly one
\* event for each of the other two cards and none for that card, whatever the
\* order of the targets and whatever costs the other two cards have paid.
C12_PerCardCostIndependence ==
    (uWindow # <<>> /\ Cardinality({c \in TargetCards : HasUnpayableCost(c)}) = 1) =>
        /\ WindowCards = {c \in TargetCards : ~HasUnpayableCost(c)}
        /\ Len(uWindow[1]) = 2

\* The window has opened after the first target failed to pay a cost and the
\* two targets after it had additional costs of their own, which they paid.
C12_Witness ==
    /\ uWindow # <<>>
    /\ HasUnpayableCost(uTargets[1])
    /\ \A i \in 2..3 : uCosts[uTargets[i]] # <<>> /\ ~HasUnpayableCost(uTargets[i])
    /\ Len(uWindow[1]) = 2

(***************************************************************************)
(* Claims on markUsedAdjusters                                             *)
(***************************************************************************)

\* The adjuster matched the play at hand in getAdjustedCost: in the pass on a
\* penalty aspect of the play or in the pass on the penalized cost.
MatchedThePlay(adjuster) ==
    \E pass \in AdjusterPasses : pass.penaltyAspect \in adjuster.passes

\* The registry with one use taken from each adjuster that matched the play,
\* and without those this left with no use.
RECURSIVE AfterOneUse(_)
AfterOneUse(adjusters) ==
    IF adjusters = <<>> THEN <<>>
    ELSE LET a == Head(adjusters)
         IN (IF ~MatchedThePlay(a) THEN <<a>>
             ELSE IF a.uses = 1 THEN <<>>
             ELSE <<[a EXCEPT !.uses = a.uses - 1]>>)
            \o AfterOneUse(Tail(adjusters))

\* C21: markUsedAdjusters takes exactly one use from every adjuster that
\* matched the play in getAdjustedCost (in the pass on the penalized cost or in
\* the pass on a penalty aspect) and from no other adjuster, and leaves no
\* adjuster in the registry that this expired.
C21_UsesTakenFromMatchingAdjusters ==
    mRegistry # <<>> => costAdjusters = AfterOneUse(mRegistry[1])

(***************************************************************************)
(* Claims on the piles of two players                                      *)
(***************************************************************************)

\* The piles of the player that hold the card
PilesHolding(player, card) ==
    {location \in PileLocations : Includes(zPiles[player][location], card)}

\* The latest call was this method and went through without Contract.fail
Completed(method) ==
    /\ zCall # <<>>
    /\ zCall[1].method = method
    /\ ~zFailed

\* C22: when moveCard is called on a player for a card that player does not
\* own and goes through, the card is afterwards in the target pile of its owner
\* and in no pile of the player the call was made on, whatever zone it was in.
C22_MoveRedirectedToOwner ==
    (Completed("moveCard") /\ zCards[zCall[1].card].owner # zCall[1].player) =>
        /\ zCall[1].targetLocation \in PilesHolding(zCards[zCall[1].card].owner, zCall[1].card)
        /\ PilesHolding(zCall[1].player, zCall[1].card) = {}

\* C26: after resourceCard(card, exhaust) has gone through, the card is in the
\* resource zone and it is exhausted exactly when exhaust was true; a card
\* resourced with exhaust = false is ready.
C26_ResourceExhaustedIffAsked ==
    Completed("resourceCard") =>
        /\ zCards[zCall[1].card].location = "resource"
        /\ zCards[zCall[1].card].exhausted = zCall[1].exhaust

(***************************************************************************)
(* Claims on the legality of targets                                       *)
(***************************************************************************)

\* C23: canAffect holds for a target exactly when the target's type passes the
\* system's type filter, the system is not in context.gameActionsResolutionChain,
\* and either no restriction on the target names the system or the stage is
\* EffectTmp and the system is marked cannotBeCancelled.
C23_CanAffectIff ==
    \A c \in DOMAIN gsCards :
        canAffect(c) <=>
            /\ cardTypeMatches(gsCards[c].type, gsSystem.targetTypeFilter)
            /\ ~gsContext.inChain
            /\ \/ ~gsCards[c].restricted
               \/ gsContext.stage = "EffectTmp" /\ gsSystem.cannotBeCancelled

\* An event was generated for a target carrying a restriction that names the
\* system, at stage EffectTmp by a system marked cannotBeCancelled; the context
\* for which canAffect accepted the target is still the current one.
C23_Witness ==
    \E i \in DOMAIN gsEvents :
        /\ gsEvents[i].legalAtCreation
        /\ gsCards[gsEvents[i].card].restricted
        /\ gsContext.stage = "EffectTmp"
        /\ gsSystem.cannotBeCancelled
        /\ canAffect(gsEvents[i].card)

\* C24: hasLegalTarget answers true exactly when canAffect accepts some
\* candidate target, allTargetsLegal exactly when it accepts every one: for no
\* candidate the answers are false and true, and for at least one candidate
\* allTargetsLegal implies hasLegalTarget.
C24_SomeAndEvery ==
    gsChecked # <<>> =>
        LET r == gsChecked[1]
            accepted == {i \in DOMAIN r.targets : r.legal[r.targets[i]]}
        IN /\ r.hasLegalTarget <=> accepted # {}
           /\ r.allTargetsLegal <=> accepted = DOMAIN r.targets
           /\ r.targets = <<>> => ~r.hasLegalTarget /\ r.allTargetsLegal
           /\ (r.targets # <<>> /\ r.allTargetsLegal) => r.hasLegalTarget

\* Two candidates were checked, canAffect accepting the second only:
\* hasLegalTarget was true and allTargetsLegal false.
C24_Witness ==
    /\ gsChecked # <<>>
    /\ Len(gsChecked[1].targets) = 2
    /\ ~gsChecked[1].legal[gsChecked[1].targets[1]]
    /\ gsChecked[1].legal[gsChecked[1].targets[2]]
    /\ gsChecked[1].hasLegalTarget
    /\ ~gsChecked[1].allTargetsLegal

\* C25: every event generateEventsForAllTargets emits is for a target canAffect
\* accepted when the event was generated, and no target gets two events, for a
\* GameSystem and for a CardTargetSystem alike.
C25_EventsOnlyForLegalTargets ==
    /\ \A i \in DOMAIN gsEvents : gsEvents[i].legalAtCreation
    /\ \A i, j \in DOMAIN gsEvents : gsEvents[i].card = gsEvents[j].card => i = j

(***************************************************************************)
(* Claims on the course of a resolution                                    *)
(***************************************************************************)

\* C27: with every prompt answered and every event window resolved, the
\* pipeline of the resolver empties in the end, and once the resolution is
\* cancelled, at whatever stage, the steps still queued run out as well.
C27_ResolutionTerminates ==
    /\ <>Terminated
    /\ cancelled ~> Terminated

\* A resolution cancelled by resolveTargets for want of legal targets has run
\* the remaining steps and emptied the pipeline.
C27_Witness ==
    /\ Terminated
    /\ cancelled
    /\ cancelCause = "noLegalTargets"
    /\ Ran("executeHandler")

\* The place of a stage in the order PreTarget, Cost, Target, EffectTmp; before
\* resolveEarlyTargets the context has none of them.
StageRank(s) ==
    CASE s = "PreTarget" -> 1
      [] s = "Cost" -> 2
      [] s = "Target" -> 3
      [] s = "EffectTmp" -> 4
      [] OTHER -> 0

\* The step that sets a stage
StageSetter(s) ==
    CASE s = "PreTarget" -> "resolveEarlyTargets"
      [] s = "Cost" -> "resolveCosts"
      [] s = "Target" -> "resolveTargets"
      [] s = "EffectTmp" -> "executeHandler"
      [] OTHER -> "none"

\* C28: context.stage is PreTarget once resolveEarlyTargets has run; it changes
\* only forward in the order PreTarget, Cost, Target, EffectTmp, each stage set
\* by its own step (resolveEarlyTargets, resolveCosts, resolveTargets,
\* executeHandler) and by no other, and never once the resolver is cancelled.
C28_StageOnlyForward ==
    /\ [](Ran("resolveEarlyTargets") => StageRank(stage) >= 1)
    /\ [][stage' # stage =>
            /\ StageRank(stage') > StageRank(stage)
            /\ Running(StageSetter(stage'))
            /\ ~cancelled]_vars

\* A resolution went through the four stages to the effect handler.
C28_Witness ==
    /\ stage = "EffectTmp"
    /\ Ran("resolveCosts")
    /\ Ran("resolveTargets")
    /\ Terminated

\* C29: the effect handler is called only with the initiateAbility flag set.
\* For an activated ability the flag is set by the 'then' window alone, when it
\* resolves the InitiateCardAbilityEvent, so without that executeHandler calls
\* nothing; for any other ability initiateAbilityEffects sets it, uncancelled.
C29_HandlerNeedsInitiateAbility ==
    /\ [](handlerCalls > 0 => initiateAbility)
    /\ [][initiateAbility' # initiateAbility =>
            /\ initiateAbility'
            /\ ~cancelled
            /\ IF ability.activated THEN Running("thenEventWindow")
                                    ELSE Running("initiateAbilityEffects")]_vars

\* The InitiateCardAbilityEvent of an activated ability was cancelled in the
\* 'then' window; executeHandler ran uncancelled and called no handler.
C29_Witness ==
    /\ ability.activated
    /\ Ran("thenEventWindow")
    /\ ~initiateAbility
    /\ ~cancelled
    /\ Ran("executeHandler")
    /\ handlerCalls = 0

C31_MoveResolvedBeforeHandler ==
    (ability.activated /\ ability.eventType /\ ~cancelled) =>
        /\ \A i \in DOMAIN trace :
              trace[i] = "executeHandler" =>
                  \E j \in 1..(i - 1) : trace[j] = "moveCardEventWindow"
        /\ handlerCalls > 0 => Ran("moveCardEventWindow")

\* The handler of an event-type ability was called with the source already in
\* the discard zone.
C31_Witness ==
    /\ Terminated
    /\ ability.activated /\ ability.eventType
    /\ ~cancelled
    /\ handlerCalls = 1
    /\ sourceLocation = "discard"
    /\ Ran("moveCardEventWindow")

\* C32: when resolveTargets runs uncancelled it sets the stage to Target and does
\* exactly one of four things, in this priority: without legal targets it emits
\* the 'insufficient legal targets' message and cancels, leaving the target
\* results alone; else with targeting delayed it calls resolveRemainingTargets;
\* else, when the player chose to pay costs first or a chosen target is no longer
\* legal, it calls resolveTargets again; else it keeps the early target results
\* and changes nothing else.
C32_TargetStageOutcome ==
    [][(Running("resolveTargets") /\ ~cancelled) =>
          /\ stage' = "Target"
          /\ targetStage' # <<>>
          /\ LET found == targetStage'[1]
                 retarget == \/ targetResults.payCostsFirst
                             \/ found.checkAllTargets = <<FALSE>>
             IN  /\ found.call \in {"cancel", "resolveRemainingTargets", "resolveTargets",
                                    "none"}
                 /\ found.call = "cancel" <=> ~found.hasLegalTargets
                 /\ found.call = "resolveRemainingTargets" <=>
                       (found.hasLegalTargets /\ targetResults.delayTargeting)
                 /\ found.call = "resolveTargets" <=>
                       (found.hasLegalTargets /\ ~targetResults.delayTargeting /\ retarget)
                 /\ found.call = "none" <=>
                       (found.hasLegalTargets /\ ~targetResults.delayTargeting /\ ~retarget)
                 /\ found.call = "cancel" =>
                       /\ cancelled'
                       /\ messages' = Append(messages, NoLegalTargetsMessage)
                       /\ targetResults' = targetResults
                 /\ found.call # "cancel" => messages' = messages
                 /\ found.call = "none" =>
                       /\ targetResults' = targetResults
                       /\ ~cancelled'
                       /\ passPriority' = passPriority]_vars

\* Targeting had been delayed and the player had chosen to pay costs first: with
\* legal targets resolveTargets resolved the remaining targets only, and the
\* handler ran.
C32_Witness ==
    /\ Terminated
    /\ targetStage # <<>>
    /\ targetStage[1].call = "resolveRemainingTargets"
    /\ targetStage[1].checkAllTargets = <<>>
    /\ handlerCalls = 1

(***************************************************************************)
(* Claims on the penalty aspects and on one adjuster pass                  *)
(***************************************************************************)

\* How many times x occurs in the array q
Count(q, x) == Cardinality({i \in DOMAIN q : q[i] = x})

\* The instances of cost aspects left once each aspect instance the leader and
\* the base grant has offset one cost aspect instance of the same aspect
UnmatchedInstances ==
    IF cCard.aspects = "null"
       THEN {}
       ELSE {p \in Aspects \X (1..Len(cCard.aspects)) :
                p[2] <= Count(cCard.aspects, p[1]) - Count(getAspects, p[1])}

\* C33: getPenaltyAspects returns the multiset difference of the card's cost
\* aspects minus the aspects of the player's leader and base (none for a null
\* aspect list), and before any adjuster each returned aspect adds 2 to the cost.
C33_PenaltyIsMultisetDifference ==
    /\ \A a \in Aspects :
          Count(getPenaltyAspects(cCard.aspects), a)
              = Cardinality({p \in UnmatchedInstances : p[1] = a})
    /\ cCalls > 0 => cAdjustedCost = <<cCard.cost + 2 * Cardinality(UnmatchedInstances)>>

\* The card has the same cost aspect twice and the leader and base grant it
\* once: one penalty, 2 more to pay.
C33_Witness ==
    /\ cCalls > 0
    /\ cCard.aspects # "null"
    /\ Len(cCard.aspects) = 2
    /\ cCard.aspects[1] = "a1" /\ cCard.aspects[2] = "a1"
    /\ Count(getAspects, "a1") = 1
    /\ getPenaltyAspects(cCard.aspects) = <<"a1">>
    /\ cAdjustedCost = <<cCard.cost + 2>>

\* The adjusters of the registry that match a pass, by their place in it
MatchingPlaces(pass) ==
    {i \in DOMAIN costAdjusters : canAdjust(costAdjusters[i], pass.penaltyAspect)}

\* The amounts the matching adjusters of sign `sign` add up to: one unit for
\* each unit of amount of each of them
AmountsOf(pass, sign) ==
    LET amounts == {a.amount * sign : a \in Adjusters}
        highest == CHOOSE n \in amounts : \A m \in amounts : m <= n
    IN Cardinality({p \in MatchingPlaces(pass) \X (1..highest) :
                       costAdjusters[p[1]].amount * sign >= p[2]})

\* C34: an adjuster pass on base cost B returns max(C - D, min(C, Fmax)), with C
\* = B plus the matching increases, D the matching decreases and Fmax the
\* highest floor of the matching adjusters, the increasing ones included; it
\* never returns more than C, and without a matching adjuster it returns B.
C34_OnePassFormula ==
    \A pass \in AdjusterPasses :
        LET places == MatchingPlaces(pass)
            C == pass.baseCost + AmountsOf(pass, -1)
            D == AmountsOf(pass, 1)
            returned == runAdjustersForCostType(pass.baseCost, pass.penaltyAspect)
        IN /\ returned <= C
           /\ places = {} => returned = pass.baseCost
           /\ places # {} =>
                 LET Fmax == CHOOSE f \in {costAdjusters[i].costFloor : i \in places} :
                                \A i \in places : costAdjusters[i].costFloor <= f
                 IN returned = Max(C - D, Min(C, Fmax))
           /\ (cCalls > 0 /\ pass.penaltyAspect = NoPenaltyAspect) =>
                 cAdjustedCost = <<returned>>

\* getAdjustedCost ran its pass on the penalized cost with an increasing and a
\* decreasing adjuster matching: the highest floor is the increasing adjuster's,
\* and it held the cost at C, above what the decrease would have left.
C34_Witness ==
    /\ cCalls > 0
    /\ Len(costAdjusters) = 2
    /\ \A i \in 1..2 : canAdjust(costAdjusters[i], NoPenaltyAspect)
    /\ costAdjusters[1].amount < 0 /\ costAdjusters[2].amount > 0
    /\ costAdjusters[1].costFloor > costAdjusters[2].costFloor
    /\ cAdjustedCost =
          <<PenalizedCost(cCard.cost, AspectPenaltiesTotal(PenaltyAspectsOfPlay)) + 1>>

(***************************************************************************)
(* Claims on the piles after moveCard                                      *)
(***************************************************************************)

\* The piles that hold the card, each with the number of times it holds it
HoldingPiles(card) ==
    {h \in [player : Players, location : PileLocations, times : 1..MaxMoves] :
        h.times = Cardinality({i \in DOMAIN zPiles[h.player][h.location] :
                                  zPiles[h.player][h.location][i] = card})}

\* C35: as long as no call of moveCard has been rejected, every card is in
\* exactly one pile over both players, once, and that pile is the one of the
\* card's location, whatever zones the card has come from (the resource zone
\* included).
C35_EveryCardInExactlyOnePile ==
    zFailures = 0 =>
        \A card \in ZoneCardSet :
            \E h \in HoldingPiles(card) :
                /\ HoldingPiles(card) = {h}
                /\ h.times = 1
                /\ h.location = zCards[card].location

\* moveCard(card, targetLocation) called on the player fails its own check: the
\* target location is not legal for the card's type, or the target pile holds
\* the card once removeCardFromPile has run.
RejectedMove(call) ==
    \/ ~isLegalLocationForCardType(zCards[call.card].type, call.targetLocation)
    \/ Includes(RemoveCardFromPileIn(ZoneState, call.card).piles[call.player][call.targetLocation],
                call.card)

\* C36: a call of moveCard that is rejected for its target location reports
\* through Contract.fail and changes nothing: every pile holds what it held, and
\* every card has the location and the controller it had.
C36_RejectedMoveChangesNothing ==
    [][(/\ zCount' = zCount + 1
        /\ zCall'[1].method = "moveCard"
        /\ RejectedMove(zCall'[1])) =>
          /\ zFailed'
          /\ zPiles' = zPiles
          /\ zCards' = zCards]_vars

(***************************************************************************)
(* Claims on the cancelled flag                                            *)
(***************************************************************************)

\* C37: this.cancelled is monotone: no step of a resolution takes it from true
\* back to false, the steps that assign it from targetResults.cancelled and
\* from the cancelled state of the cost events included.
C37_CancelledIsMonotone == [][cancelled => cancelled']_vars

\* resolveTargets cancelled the resolution for want of legal targets, and the
\* checkForCancelOrPass that ran after it, with target results that are not
\* cancelled, left the flag set.
C37_Witness ==
    /\ Terminated
    /\ cancelled
    /\ cancelCause = "noLegalTargets"
    /\ ~targetResults.cancelled
    /\ TimesRun("checkForCancelOrPass") = 2
    /\ trace[Len(trace) - 2] = "checkForCancelOrPass"

(***************************************************************************)
(* Claims on the steps of 'unless' costs and the event window              *)
(***************************************************************************)

\* The steps generateEventsForAllTargets queued that have not run yet
UnlessStepsWaiting ==
    {i \in DOMAIN uPipeline :
        uPipeline[i].label \in {"resolve card targeting costs",
                                "push card target event if targeting cost paid"}}

\* Every additional cost of the card was paid.
PaidEveryCost(card) == \A i \in DOMAIN uCosts[card] : uCosts[card][i]

\* C38: every step generateEventsForAllTargets queued for 'unless' costs has run
\* when the step of resolve opens the event window, so the window opens on
\* exactly one event for each target that paid every additional cost it has,
\* and on none for a target that left one of several unpaid.
C38_CostStepsRunBeforeWindowOpens ==
    /\ \A i \in DOMAIN uPipeline :
          uPipeline[i].label = "openEventWindow" => \A j \in UnlessStepsWaiting : j < i
    /\ uWindow # <<>> =>
          /\ UnlessStepsWaiting = {}
          /\ \A card \in TargetCards :
                Cardinality({i \in DOMAIN uWindow[1] : uWindow[1][i].card = card})
                    = IF PaidEveryCost(card) THEN 1 ELSE 0

\* The window has opened: one target paid both its additional costs and has its
\* event, one paid the first of two and not the second and has none.
C38_Witness ==
    /\ uWindow # <<>>
    /\ \E paid, unpaid \in TargetCards :
          /\ Len(uCosts[paid]) = 2 /\ PaidEveryCost(paid)
          /\ uCosts[unpaid] = <<TRUE, FALSE>>
          /\ \E i \in DOMAIN uWindow[1] : uWindow[1][i].card = paid
          /\ \A i \in DOMAIN uWindow[1] : uWindow[1][i].card # unpaid

(***************************************************************************)
(* Claims on the condition of contingent events                            *)
(***************************************************************************)

\* The window takes up its next event, a contingent one.
AppliesContingentEvent ==
    /\ lPhase = "apply"
    /\ ToApply # {}
    /\ lEvents[NextToApply].isContingent
    /\ lEvents' # lEvents

\* The window closes to reactions and the contingent events are created.
CreatesContingentEvents == lPhase = "interrupt" /\ lPhase' = "apply"

\* C39: the contingent defeat event of an upgrade is applied exactly when, as
\* the window takes it up, the defeat system's own condition holds and the
\* upgrade's parentCard is still the card of the primary event; otherwise the
\* event is cancelled and nothing is done to any card. When the contingent
\* events are created, the upgrades of a primary event's card that are in an
\* arena get one each and the others get none.
C39_ContingentConditionAtApplyTime ==
    [][/\ AppliesContingentEvent =>
             LET i == NextToApply
                 upgrade == lEvents[i].card
                 attached == lCards[upgrade].parent = lEvents[lEvents[i].primary].card
             IN /\ lEvents'[i].previousCondition # <<>>
                /\ lEvents'[i].resolved <=> (lEvents'[i].previousCondition[1] /\ attached)
                /\ lEvents'[i].resolved => lApplied' = Append(lApplied, i)
                /\ ~lEvents'[i].resolved =>
                      /\ lEvents'[i].cancelled
                      /\ lCards' = lCards
                      /\ lApplied' = lApplied
       /\ CreatesContingentEvents =>
             \A i \in DOMAIN lEvents :
                {lEvents'[j].card : j \in {k \in DOMAIN lEvents' :
                                            /\ lEvents'[k].isContingent
                                            /\ lEvents'[k].primary = i}}
                   = IF lEvents[i].cancelled
                        THEN {}
                        ELSE {u \in LeavesPlayCards :
                                 /\ lCards[u].parent = lEvents[i].card
                                 /\ lCards[u].location \in {"groundArena", "spaceArena"}}]_vars

\* The unit's upgrade in the arena got a contingent event and the one out of
\* play got none; the upgrade was attached to the other unit before the window
\* took the event up, the defeat system's own condition held, and the event was
\* cancelled: the upgrade is still in the arena.
C39_Witness ==
    /\ lPhase = "apply"
    /\ Cardinality(ContingentEventsOf(1)) = 1
    /\ lCards["upg2"].location = "hand"
    /\ \E j \in ContingentEventsOf(1) :
          /\ lEvents[j].card = "upg1"
          /\ lEvents[j].cancelled
          /\ lEvents[j].previousCondition = <<TRUE>>
          /\ lCards["upg1"].parent = "unit2"
          /\ lCards["upg1"].location = "groundArena"

====
